---- MODULE Spec2Model ----
(***************************************************************************)
(* A model of toon's terminal controller (src/src/terminal.rs): the frame  *)
(* differ, the draw/event loop with its synthetic mouse state, and the     *)
(* process-wide terminal singleton.  The cell grid (buffer.rs) and the     *)
(* virtual backend (backend/dummy.rs) are modelled from the specification. *)
(***************************************************************************)
EXTENDS Integers, Sequences, FiniteSets, TLC

VARIABLES
    title,        \* Terminal.title: the cached title
    old_buffer,   \* Terminal.old_buffer: the previous frame
    buffer,       \* Terminal.buffer: the buffer elements draw into
    cursor_pos,   \* Terminal.cursor_pos: the held cursor position
    style,        \* Terminal.style: the held style
    mouse,        \* Terminal.mouse: the held mouse button
    backend,      \* the bound backend's state (virtual backend)
    pc,           \* where the terminal's owner is: "idle", "await", "returned"
    element,      \* the element of the draw call in progress
    ret,          \* what the last draw call returned
    ops,          \* the backend operations issued by the last step
    err,          \* index in ops of the operation that failed (0: none)
    delivered,    \* the inputs handed to element.handle by the last step
    drawn,        \* the buffer the last element.draw produced
    rawHist,      \* the raw mouse kinds read so far (history)
    failures,     \* the number of backend operations that failed so far
    TERMINAL_EXISTS,  \* the process-wide flag
    terminals,    \* the terminals the process's threads construct and drop
    outcome,      \* the last constructor or destructor call and its result
    border,       \* a Border filter: its padding flag
    border_input, \* the input given to Border::handle
    area,         \* the area Border::draw gave the wrapped element
    forwarded,    \* what Border::handle handed to the wrapped element
    filtered,     \* the last call of a method of a Filtered and what it did
    arith         \* the last operation on two Vec2<u16> and its outcome

\* The singleton's state, which drawing leaves alone.
life == <<TERMINAL_EXISTS, terminals, outcome>>

\* The state of the filters and of the vectors they compute with, on their
\* own, which the terminal leaves alone.
filters == <<border, border_input, area, forwarded, filtered, arith>>

vars == <<title, old_buffer, buffer, cursor_pos, style, mouse, backend, pc,
          element, ret, ops, err, delivered, drawn, rawHist, failures,
          TERMINAL_EXISTS, terminals, outcome,
          border, border_input, area, forwarded, filtered, arith>>

\* ------------------------------------------------------------------ bounds

\* The widest and the tallest grid, and the largest grid area, of the model.
MaxW == 3
MaxH == 2
MaxCells == 4

\* The terminals the process may hold at once (constructed or being so).
MaxTerminals == 4

Slots == 1..MaxTerminals

\* No terminal has been constructed by the threads of the singleton model:
\* the terminal that draws is bound to a dummy backend.
NoTerminal == [state |-> "none"]

LifeIdle ==
    /\ TERMINAL_EXISTS = FALSE
    /\ terminals = [i \in Slots |-> NoTerminal]
    /\ outcome = [op |-> "none"]

\* No Border filter is looked at.
FiltersIdle ==
    /\ border = [none |-> TRUE]
    /\ border_input = [none |-> TRUE]
    /\ area = [none |-> TRUE]
    /\ forwarded = [none |-> TRUE]
    /\ filtered = [none |-> TRUE]
    /\ arith = [none |-> TRUE]

Min(a, b) == IF a <= b THEN a ELSE b

None == [none |-> TRUE]

Vec2(x, y) == [x |-> x, y |-> y]

\* ------------------------------------------------------------------ styles

Style(fg, bg, intensity, italic, underlined, blinking, crossed_out) ==
    [foreground |-> fg, background |-> bg, intensity |-> intensity,
     italic |-> italic, underlined |-> underlined, blinking |-> blinking,
     crossed_out |-> crossed_out]

DefaultStyle == Style("Default", "Default", "Normal", FALSE, FALSE, FALSE, FALSE)

\* The two non-default styles of test_diff_grid.
RedStyle == Style("Red", "Blue", "Bold", FALSE, TRUE, FALSE, FALSE)
GreenStyle == Style("Green", "Blue", "Bold", FALSE, TRUE, FALSE, FALSE)

\* ------------------------------------------------------------------- cells

Char(contents, double, st) ==
    [kind |-> "Char", contents |-> contents, double |-> double, style |-> st]

Continuation == [kind |-> "Continuation"]

Blank == Char(" ", FALSE, DefaultStyle)

\* The display width of a glyph; "W" stands for a double-wide glyph.
GlyphWidth(g) == IF g = "W" THEN 2 ELSE 1

\* -------------------------------------------------------------------- grid

\* Grid::new(size): size.x * size.y blank cells.
GridNew(size) ==
    [w |-> size.x, h |-> size.y,
     lines |-> [r \in 1..size.y |-> [c \in 1..size.x |-> Blank]]]

\* One row after a glyph is put at column x (0-based) of it.
RowWriteChar(row, x, g, st) ==
    LET w == Len(row)
        double == GlyphWidth(g) = 2 /\ x + 1 < w
        new == IF GlyphWidth(g) = 2 /\ ~double THEN Blank ELSE Char(g, double, st)
        last == IF double THEN x + 1 ELSE x
    IN [c \in 1..w |->
          LET i == c - 1 IN
          IF i = x THEN new
          ELSE IF double /\ i = x + 1 THEN Continuation
          ELSE IF i = x - 1 /\ row[x + 1].kind = "Continuation" THEN Blank
          ELSE IF i = last + 1 /\ row[c].kind = "Continuation" THEN Blank
          ELSE row[c]]

\* Grid::write_char(pos, ch, style): out of bounds is a no-op.
GridWriteChar(grid, pos, g, st) ==
    IF pos.x >= grid.w \/ pos.y >= grid.h THEN grid
    ELSE [grid EXCEPT !.lines[pos.y + 1] = RowWriteChar(@, pos.x, g, st)]

\* Grid::write(pos, text, style): the glyphs of text on one row, each advancing
\* x by its display width.
RECURSIVE GridWrite(_, _, _, _)
GridWrite(grid, pos, text, st) ==
    IF text = <<>> THEN grid
    ELSE GridWrite(GridWriteChar(grid, pos, Head(text), st),
                   Vec2(pos.x + GlyphWidth(Head(text)), pos.y), Tail(text), st)

\* The invariants of a grid row.
RowOk(row) ==
    \A c \in 1..Len(row) :
        /\ row[c].kind = "Continuation" =>
              c > 1 /\ row[c - 1].kind = "Char" /\ row[c - 1].double
        /\ (row[c].kind = "Char" /\ row[c].double) =>
              c < Len(row) /\ row[c + 1].kind = "Continuation"

GridOk(grid) ==
    /\ Len(grid.lines) = grid.h
    /\ \A r \in 1..grid.h : Len(grid.lines[r]) = grid.w /\ RowOk(grid.lines[r])

\* ------------------------------------------------------------------ buffer

\* Buffer::from(grid): a grid and no cursor.
BufferFrom(grid) == [grid |-> grid, cursor |-> None]

\* Buffer::reset(): clears the grid and the cursor.
BufferReset(buf) == BufferFrom(GridNew(Vec2(buf.grid.w, buf.grid.h)))

Cursor(pos, shape, blinking) ==
    [none |-> FALSE, pos |-> pos, shape |-> shape, blinking |-> blinking]

\* --------------------------------------------------------- backend operations

Op(name, arg) == [op |-> name, arg |-> arg]

\* The state of a step of the terminal that issues backend operations: the
\* operations issued so far, whether one has failed (the step then does nothing
\* more: the ? operator returns), the index failAt of the operation that is
\* to fail, and the terminal's held style and cursor position.
Acc(failAt, st, pos) ==
    [ops |-> <<>>, err |-> FALSE, failAt |-> failAt, style |-> st, cursor_pos |-> pos]

\* Mutant of Emit: the step carries on after a failed operation.
EmitNoReturn(acc, name, arg) ==
    [acc EXCEPT !.ops = Append(@, Op(name, arg)),
                !.err = acc.err \/ (Len(acc.ops) + 1 = acc.failAt)]

\* backend.op(arg)?
Emit(acc, name, arg) ==
    IF acc.err THEN acc
    ELSE [acc EXCEPT !.ops = Append(@, Op(name, arg)),
                     !.err = (Len(acc.ops) + 1 = acc.failAt)]

EmitIf(cond, acc, name, arg) == IF cond THEN Emit(acc, name, arg) ELSE acc

\* ------------------------------------------------------------------ differ

\* Mutant of diff_styles: every write is preceded by the cell's foreground
\* and background, whatever is held.
diff_stylesAlways(acc, new_style) ==
    Emit(Emit(acc, "SetForeground", new_style.foreground),
         "SetBackground", new_style.background)

\* diff_styles!: one set_* operation per style field that differs from the
\* held style, in the order of the macro's arms.
diff_styles(acc, new_style) ==
    LET a1 == EmitIf(acc.style.foreground # new_style.foreground,
                     acc, "SetForeground", new_style.foreground)
        a2 == EmitIf(acc.style.background # new_style.background,
                     a1, "SetBackground", new_style.background)
        a3 == EmitIf(acc.style.intensity # new_style.intensity,
                     a2, "SetIntensity", new_style.intensity)
        a4 == EmitIf(acc.style.italic # new_style.italic,
                     a3, "SetItalic", new_style.italic)
        a5 == EmitIf(acc.style.underlined # new_style.underlined,
                     a4, "SetUnderlined", new_style.underlined)
        a6 == EmitIf(acc.style.blinking # new_style.blinking,
                     a5, "SetBlinking", new_style.blinking)
    IN EmitIf(acc.style.crossed_out # new_style.crossed_out,
              a6, "SetCrossedOut", new_style.crossed_out)

\* Mutant of AdvanceCursor: the held cursor moves past the end of the line.
AdvanceCursorPastEnd(pos, double, width) ==
    Vec2(pos.x + (IF double THEN 2 ELSE 1), pos.y)

\* Mutant of AdvanceCursor: every glyph advances the held cursor by one.
AdvanceCursorByOne(pos, double, width) == Vec2(Min(pos.x + 1, width - 1), pos.y)

\* The position the held cursor takes after a glyph is written at pos.
AdvanceCursor(pos, double, width) ==
    Vec2(Min(pos.x + (IF double THEN 2 ELSE 1), width - 1), pos.y)

\* The held style and cursor position after the cell's write.
AfterWrite(acc, new_cell, pos, width) ==
    IF acc.err THEN acc
    ELSE [acc EXCEPT !.style = new_cell.style,
                     !.cursor_pos = AdvanceCursor(pos, new_cell.double, width)]

\* Mutant: the write goes out wherever the backend's cursor is.
MoveAndWriteNoMove(acc, new_cell, pos) == Emit(acc, "Write", new_cell.contents)

\* Mutant: every write is preceded by a cursor move to its cell.
MoveAndWriteAlwaysMove(acc, new_cell, pos) ==
    Emit(Emit(acc, "SetCursorPos", pos), "Write", new_cell.contents)

\* The cursor move and the write of the cell at pos.
MoveAndWrite(acc, new_cell, pos) ==
    Emit(EmitIf(acc.cursor_pos # pos, acc, "SetCursorPos", pos),
         "Write", new_cell.contents)

\* Mutant: the cursor is moved before the style is set.
DiffCellMoveFirst(acc, old_cell, new_cell, pos, width) ==
    IF acc.err \/ new_cell = old_cell \/ new_cell.kind = "Continuation" THEN acc
    ELSE AfterWrite(Emit(diff_styles(EmitIf(acc.cursor_pos # pos, acc, "SetCursorPos", pos),
                                     new_cell.style),
                         "Write", new_cell.contents),
                    new_cell, pos, width)

\* The body of diff's inner loop for the cell at pos.
DiffCell(acc, old_cell, new_cell, pos, width) ==
    IF acc.err \/ new_cell = old_cell \/ new_cell.kind = "Continuation" THEN acc
    ELSE AfterWrite(MoveAndWrite(diff_styles(acc, new_cell.style), new_cell, pos),
                    new_cell, pos, width)

\* diff's two loops over the zipped lines and cells, from cell x of line y on.
RECURSIVE DiffCells(_, _, _, _, _)
DiffCells(acc, old, new, x, y) ==
    IF y >= Min(Len(old.lines), Len(new.lines)) THEN acc
    ELSE IF x >= Min(Len(old.lines[y + 1]), Len(new.lines[y + 1]))
         THEN DiffCells(acc, old, new, 0, y + 1)
    ELSE DiffCells(DiffCell(acc, old.lines[y + 1][x + 1], new.lines[y + 1][x + 1],
                            Vec2(x, y), new.w),
                   old, new, x + 1, y)

\* Mutant of DiffBackground: the reset is skipped when the held background
\* is the default already.
DiffBackgroundIfHeld(acc) ==
    IF acc.err \/ acc.style.background = "Default" THEN acc
    ELSE [Emit(acc, "SetBackground", "Default") EXCEPT !.style.background = "Default"]

\* The end of diff: the background reset.
HeldBackground(acc) ==
    IF acc.err THEN acc ELSE [acc EXCEPT !.style.background = "Default"]

DiffBackground(acc) == HeldBackground(Emit(acc, "SetBackground", "Default"))

\* Mutant of DiffCursor: the cursor is shown in every frame that has one.
DiffCursorAlwaysShow(acc, old_cursor, new_cursor) ==
    IF ~new_cursor.none
    THEN LET a1 == Emit(acc, "ShowCursor", "")
             a2 == EmitIf(old_cursor.none \/ old_cursor.shape # new_cursor.shape,
                          a1, "SetCursorShape", new_cursor.shape)
             a3 == EmitIf(old_cursor.none \/ old_cursor.blinking # new_cursor.blinking,
                          a2, "SetCursorBlinking", new_cursor.blinking)
         IN EmitIf(a3.cursor_pos # new_cursor.pos, a3, "SetCursorPos", new_cursor.pos)
    ELSE EmitIf(~old_cursor.none, acc, "HideCursor", "")

\* The end of diff: the cursor reconciliation.
DiffCursor(acc, old_cursor, new_cursor) ==
    IF ~new_cursor.none
    THEN LET a1 == EmitIf(old_cursor.none, acc, "ShowCursor", "")
             a2 == EmitIf(old_cursor.none \/ old_cursor.shape # new_cursor.shape,
                          a1, "SetCursorShape", new_cursor.shape)
             a3 == EmitIf(old_cursor.none \/ old_cursor.blinking # new_cursor.blinking,
                          a2, "SetCursorBlinking", new_cursor.blinking)
         IN EmitIf(a3.cursor_pos # new_cursor.pos, a3, "SetCursorPos", new_cursor.pos)
    ELSE EmitIf(~old_cursor.none, acc, "HideCursor", "")

\* Terminal::diff: old_buffer against buffer.
Diff(acc, old_buf, new_buf) ==
    DiffCursor(DiffBackground(DiffCells(acc, old_buf.grid, new_buf.grid, 0, 0)),
               old_buf.cursor, new_buf.cursor)

\* --------------------------------------------------------- virtual backend

\* The backend right after Terminal::new's initial operations on a terminal
\* showing grid: cursor hidden at the origin, default style.
BackendNew(grid) ==
    [grid |-> grid, cursor_pos |-> Vec2(0, 0), style |-> DefaultStyle,
     cursor_visible |-> FALSE, cursor_shape |-> "Block", cursor_blinking |-> FALSE,
     title |-> <<>>]

\* The virtual backend after one successful operation.
ApplyOp(b, o) ==
    CASE o.op = "SetForeground" -> [b EXCEPT !.style.foreground = o.arg]
      [] o.op = "SetBackground" -> [b EXCEPT !.style.background = o.arg]
      [] o.op = "SetIntensity" -> [b EXCEPT !.style.intensity = o.arg]
      [] o.op = "SetItalic" -> [b EXCEPT !.style.italic = o.arg]
      [] o.op = "SetUnderlined" -> [b EXCEPT !.style.underlined = o.arg]
      [] o.op = "SetBlinking" -> [b EXCEPT !.style.blinking = o.arg]
      [] o.op = "SetCrossedOut" -> [b EXCEPT !.style.crossed_out = o.arg]
      [] o.op = "SetCursorPos" -> [b EXCEPT !.cursor_pos = o.arg]
      [] o.op = "Write" ->
            [b EXCEPT !.grid = GridWriteChar(b.grid, b.cursor_pos, o.arg, b.style),
                      !.cursor_pos = Vec2(Min(b.cursor_pos.x + GlyphWidth(o.arg),
                                              b.grid.w - 1), b.cursor_pos.y)]
      [] o.op = "ShowCursor" -> [b EXCEPT !.cursor_visible = TRUE]
      [] o.op = "HideCursor" -> [b EXCEPT !.cursor_visible = FALSE]
      [] o.op = "SetCursorShape" -> [b EXCEPT !.cursor_shape = o.arg]
      [] o.op = "SetCursorBlinking" -> [b EXCEPT !.cursor_blinking = o.arg]
      [] o.op = "SetTitle" -> [b EXCEPT !.title = o.arg]
      [] OTHER -> b

\* The virtual backend after the first n operations of a stream.
RECURSIVE ApplyOps(_, _, _)
ApplyOps(b, stream, n) ==
    IF n = 0 THEN b ELSE ApplyOp(ApplyOps(b, stream, n - 1), stream[n])

\* A backend whose screen is not modelled.
NoScreen == [none |-> TRUE]

\* The backend after the operations of a step: all of them, or those before
\* the one that failed.
BackendAfter(b, acc) ==
    IF b = NoScreen THEN b
    ELSE ApplyOps(b, acc.ops, IF acc.err THEN Len(acc.ops) - 1 ELSE Len(acc.ops))

\* ------------------------------------------------- the differ on its own

GridSizes == {s \in [x : 1..MaxW, y : 1..MaxH] : s.x * s.y <= MaxCells}

\* A blank, a styled space (it differs from the blank in style alone), a
\* double-wide glyph and its right half.
CellAlphabet ==
    {Blank, Char(" ", FALSE, RedStyle), Char("W", TRUE, GreenStyle), Continuation}

Rows(w) == {r \in [1..w -> CellAlphabet] : RowOk(r)}

Grids(size) == {[w |-> size.x, h |-> size.y, lines |-> l] : l \in [1..size.y -> Rows(size.x)]}

Positions(size) == [x : 0..(size.x - 1), y : 0..(size.y - 1)]

HeldStyles == {DefaultStyle, RedStyle}

BufferCursors(size) == {None, Cursor(Vec2(size.x - 1, 0), "Bar", TRUE)}

\* As test_diff_grid sets the terminal up: any two buffers of one size, any
\* held style and cursor position, and a backend that shows the old grid and
\* has the held style and cursor position.
InitDiff ==
    \E size \in GridSizes :
    \E A \in Grids(size), B \in Grids(size) :
    \E ca \in BufferCursors(size), cb \in BufferCursors(size) :
    \E st \in HeldStyles, pos \in Positions(size) :
        /\ old_buffer = [grid |-> A, cursor |-> ca]
        /\ buffer = [grid |-> B, cursor |-> cb]
        /\ style = st
        /\ cursor_pos = pos
        /\ backend = [BackendNew(A) EXCEPT !.style = st, !.cursor_pos = pos,
                                           !.cursor_visible = ~ca.none]
        /\ pc = "diff"
        /\ title = <<>> /\ mouse = None /\ element = None /\ ret = None
        /\ ops = <<>> /\ err = 0 /\ delivered = <<>> /\ drawn = None
        /\ rawHist = <<>> /\ failures = 0
        /\ LifeIdle
        /\ FiltersIdle

\* terminal.diff().unwrap()
DiffStep ==
    /\ pc = "diff"
    /\ LET acc == Diff(Acc(0, style, cursor_pos), old_buffer, buffer)
       IN /\ style' = acc.style
          /\ cursor_pos' = acc.cursor_pos
          /\ ops' = acc.ops
          /\ backend' = BackendAfter(backend, acc)
    /\ pc' = "done"
    /\ UNCHANGED <<title, old_buffer, buffer, mouse, element, ret, err, delivered,
                   drawn, rawHist, failures, life, filters>>

NextDiff == DiffStep

SpecDiff == InitDiff /\ [][NextDiff]_vars

\* C1: when the differ has run on an old and a new buffer of one size, with a
\* virtual backend that showed the old grid and had the held style and
\* cursor position, the backend's grid equals the new buffer's grid.
C1_DiffYieldsNewGrid == pc = "done" => backend.grid = buffer.grid

\* A diff that wrote over the right half of a double-wide glyph.
C1_Witness ==
    /\ pc = "done"
    /\ backend.grid = buffer.grid
    /\ \E y \in 1..buffer.grid.h : \E x \in 1..buffer.grid.w :
          /\ old_buffer.grid.lines[y][x] = Continuation
          /\ buffer.grid.lines[y][x].kind = "Char"
          /\ buffer.grid.lines[y][x].double

\* The cells the differ writes: those that changed and are no Continuation,
\* and their rank in row-major order.
Written(old, new) ==
    {p \in Positions(Vec2(new.w, new.h)) :
        /\ new.lines[p.y + 1][p.x + 1] # old.lines[p.y + 1][p.x + 1]
        /\ new.lines[p.y + 1][p.x + 1].kind # "Continuation"}

RowMajorRank(S, p) ==
    1 + Cardinality({q \in S : q.y < p.y \/ (q.y = p.y /\ q.x < p.x)})

WriteIndexes(stream) == {i \in 1..Len(stream) : stream[i].op = "Write"}

\* The index in the stream of its k-th write (0 for k = 0).
NthWrite(stream, k) ==
    IF k = 0 THEN 0
    ELSE CHOOSE i \in WriteIndexes(stream) :
            Cardinality({j \in WriteIndexes(stream) : j < i}) = k - 1

StyleOps ==
    {"SetForeground", "SetBackground", "SetIntensity", "SetItalic",
     "SetUnderlined", "SetBlinking", "SetCrossedOut"}

\* The style in force after the operations first..last of the stream.
RECURSIVE StyleAfter(_, _, _, _)
StyleAfter(st, stream, first, last) ==
    IF first > last THEN st
    ELSE StyleAfter(IF stream[first].op \in StyleOps
                    THEN ApplyOp([style |-> st], stream[first]).style ELSE st,
                    stream, first + 1, last)

\* The operations of one diff, for the old and new grid and the held style and
\* cursor position it started from, are in the order of the ordering guarantee.
DifferOrder(old, new, heldStyle, held, stream) ==
    LET W == Written(old, new)
        cellOf(k) == CHOOSE p \in W : RowMajorRank(W, p) = k
        tracked(k) ==
            IF k = 1 THEN held
            ELSE LET q == cellOf(k - 1)
                 IN Vec2(Min(q.x + (IF new.lines[q.y + 1][q.x + 1].double THEN 2 ELSE 1),
                             new.w - 1), q.y)
    IN /\ Cardinality(WriteIndexes(stream)) = Cardinality(W)
       /\ \A k \in 1..Cardinality(W) :
            LET i == NthWrite(stream, k)
                from == NthWrite(stream, k - 1) + 1
                p == cellOf(k)
                moved == tracked(k) # p
                styled == IF moved THEN i - 2 ELSE i - 1
            IN /\ stream[i].arg = new.lines[p.y + 1][p.x + 1].contents
               /\ moved => /\ i - 1 >= from
                           /\ stream[i - 1].op = "SetCursorPos"
                           /\ stream[i - 1].arg = p
               /\ \A j \in from..styled : stream[j].op \in StyleOps
               /\ StyleAfter(heldStyle, stream, 1, styled)
                     = new.lines[p.y + 1][p.x + 1].style

\* C10: the differ's operations come cell by cell in row-major order of the
\* changed cells, and for each written cell as its style operations, then a
\* set_cursor_pos to the cell if and only if the tracked cursor position is
\* not the cell's, then the write.
C10_DifferOrder ==
    [][pc = "diff" /\ pc' = "done" =>
          DifferOrder(old_buffer.grid, buffer.grid, style, cursor_pos, ops')]_vars

\* A diff that wrote on two rows, the second write after a style operation
\* and a cursor move.
C10_Witness ==
    /\ pc = "done"
    /\ \E p, q \in Written(old_buffer.grid, buffer.grid) : p.y < q.y
    /\ \E i \in 3..Len(ops) :
          /\ ops[i].op = "Write" /\ ops[i - 1].op = "SetCursorPos"
          /\ ops[i - 2].op \in StyleOps
          /\ \E j \in 1..(i - 3) : ops[j].op = "Write"

\* ------------------------------------------------------------------ resize

\* Grid::resize_width: pads with blanks on the right, or truncates from the
\* right; a double-wide glyph whose Continuation is cut off becomes a blank.
RowResizeWidth(row, w) ==
    [c \in 1..w |->
        IF c > Len(row) THEN Blank
        ELSE IF c = w /\ row[c].kind = "Char" /\ row[c].double THEN Blank
        ELSE row[c]]

GridResizeWidth(grid, w) ==
    [w |-> w, h |-> grid.h, lines |-> [r \in 1..grid.h |-> RowResizeWidth(grid.lines[r], w)]]

\* Grid::resize_height_with_anchor: rows are removed from, or blank rows added
\* to, the end farther from the anchor row (the trailing end on a tie).
GridResizeHeight(grid, h, anchor) ==
    LET top == anchor > (grid.h - 1) - anchor
        shift == IF top THEN grid.h - h ELSE 0
    IN [w |-> grid.w, h |-> h,
        lines |-> [r \in 1..h |->
            IF r + shift >= 1 /\ r + shift <= grid.h THEN grid.lines[r + shift]
            ELSE [c \in 1..grid.w |-> Blank]]]

\* ---------------------------------------------------------------- elements

\* What a span-like element draws, where it puts the cursor, its title, and
\* the events it pushes for the inputs it listens to.
Element(text, st, cursor, ttl, listens, pushes) ==
    [text |-> text, style |-> st, cursor |-> cursor, title |-> ttl,
     listens |-> listens, pushes |-> pushes]

ElementCursor(e, size) ==
    CASE e.cursor = "start" -> Cursor(Vec2(0, 0), "Block", FALSE)
      [] e.cursor = "end" -> Cursor(Vec2(size.x - 1, size.y - 1), "Bar", TRUE)
      [] OTHER -> None

\* element.draw(&mut buffer): Span::draw writes the text at the origin; an
\* element with a cursor sets it.
ElementDraw(e, buf) ==
    [grid |-> GridWrite(buf.grid, Vec2(0, 0), e.text, e.style),
     cursor |-> IF e.cursor = "none" THEN buf.cursor
                ELSE ElementCursor(e, Vec2(buf.grid.w, buf.grid.h))]

\* element.handle(input, &mut events): the events pushed to the sink.
Handle(e, input) ==
    IF input.kind \in e.listens THEN e.pushes ELSE <<>>

Elements ==
    {Element(<<>>, DefaultStyle, "none", <<>>, {"Key"}, <<"Quit">>),
     Element(<<"a">>, RedStyle, "end", <<"t">>, {"Key", "Press"}, <<"Quit">>),
     Element(<<"a", "a">>, RedStyle, "start", <<"t">>, {"Release", "Drag"}, <<"Up", "Quit">>),
     Element(<<"W", "a">>, GreenStyle, "none", <<"t", "u">>, {}, <<>>)}

\* ------------------------------------------------------- terminal events

Key(k) == [type |-> "Key", key |-> k]
Mouse(kind) == [type |-> "Mouse", kind |-> kind, at |-> Vec2(0, 0)]
Resize(size) == [type |-> "Resize", size |-> size]

Press(button) == [kind |-> "Press", button |-> button]
Release == [kind |-> "Release"]
Move == [kind |-> "Move"]
ScrollUp == [kind |-> "ScrollUp"]
ScrollDown == [kind |-> "ScrollDown"]

MouseButtons == {"Left", "Right"}

TerminalMouseKinds ==
    {Press(b) : b \in MouseButtons} \cup {Release, Move, ScrollUp, ScrollDown}

MouseEvents == {Mouse(k) : k \in TerminalMouseKinds}

TerminalEvents == {Key("q")} \cup MouseEvents \cup {Resize(s) : s \in GridSizes}

\* ------------------------------------------------------- Terminal::draw

Some(v) == [none |-> FALSE, value |-> v]

Ok(v) == [ok |-> TRUE, value |-> v]
Err(kind) == [ok |-> FALSE, error |-> kind]

\* The title set when the element's title is empty.
DefaultTitle == <<"Toon App">>

\* The terminal at the start of a step in which the failAt-th backend
\* operation fails: its fields, and the operations issued so far.
Run(failAt) ==
    [ops |-> <<>>, err |-> FALSE, failAt |-> failAt,
     title |-> title, old_buffer |-> old_buffer, buffer |-> buffer,
     cursor_pos |-> cursor_pos, style |-> style, mouse |-> mouse, drawn |-> drawn]

\* Mutant of TitleIsSame: a title that is a prefix of the cached one is the
\* same.
TitleIsSamePrefix(cached, new) ==
    /\ cached # <<>>
    /\ \A i \in 1..Len(new) : i <= Len(cached) /\ cached[i] = new[i]

\* title_is_same: the cached title is not empty and the element streams the
\* same bytes, all of them.
TitleIsSame(cached, new) ==
    /\ cached # <<>>
    /\ \A i \in 1..Len(new) : i <= Len(cached) /\ cached[i] = new[i]
    /\ Len(cached) - Len(new) = 0

\* The title update at the start of draw.
UpdateTitle(r, e) ==
    IF TitleIsSame(r.title, e.title) THEN r
    ELSE LET t == IF e.title = <<>> THEN DefaultTitle ELSE e.title
         IN Emit([r EXCEPT !.title = t], "SetTitle", t)

\* Mutant of ResetAndSwap: the buffers are swapped, old_buffer not reset.
SwapOnly(r) ==
    IF r.err THEN r
    ELSE [r EXCEPT !.old_buffer = r.buffer, !.buffer = r.old_buffer]

\* The end of an iteration of draw's outer loop, after flush: old_buffer is
\* reset and the two buffers are swapped.
ResetAndSwap(r) ==
    IF r.err THEN r
    ELSE [r EXCEPT !.old_buffer = r.buffer, !.buffer = BufferReset(r.old_buffer)]

\* Mutant of DiffAndFlush: the backend is flushed before the diff.
FlushAndDiff(r) == ResetAndSwap(Diff(Emit(r, "Flush", ""), r.old_buffer, r.buffer))

\* diff and flush on the buffer the element has drawn.
DiffAndFlush(r) == ResetAndSwap(Emit(Diff(r, r.old_buffer, r.buffer), "Flush", ""))

\* The buffer after element.draw, which is then diffed.
DrawInto(r, b) == DiffAndFlush([r EXCEPT !.buffer = b, !.drawn = b])

\* One iteration of draw's outer loop up to the event loop: element.draw,
\* diff, flush, reset and swap.
Frame(r, e) == IF r.err THEN r ELSE DrawInto(r, ElementDraw(e, r.buffer))

\* Mutant of Synthesize: a scroll lets go of the held button.
SynthesizeScrollClears(held, raw) ==
    CASE raw.kind = "Press" ->
            [mouse |-> Some(raw.button), kind |-> Some(Press(raw.button))]
      [] raw.kind = "Release" ->
            IF held.none THEN [mouse |-> None, kind |-> None]
            ELSE [mouse |-> None,
                  kind |-> Some([kind |-> "Release", button |-> held.value])]
      [] raw.kind = "Move" ->
            IF held.none THEN [mouse |-> held, kind |-> Some(Move)]
            ELSE [mouse |-> held,
                  kind |-> Some([kind |-> "Drag", button |-> held.value])]
      [] OTHER -> [mouse |-> None, kind |-> Some(raw)]

\* Mutant of Synthesize: a Release leaves the held button in place.
SynthesizeKeepHeld(held, raw) ==
    CASE raw.kind = "Press" ->
            [mouse |-> Some(raw.button), kind |-> Some(Press(raw.button))]
      [] raw.kind = "Release" ->
            IF held.none THEN [mouse |-> held, kind |-> None]
            ELSE [mouse |-> held,
                  kind |-> Some([kind |-> "Release", button |-> held.value])]
      [] raw.kind = "Move" ->
            IF held.none THEN [mouse |-> held, kind |-> Some(Move)]
            ELSE [mouse |-> held,
                  kind |-> Some([kind |-> "Drag", button |-> held.value])]
      [] OTHER -> [mouse |-> held, kind |-> Some(raw)]

\* Mutant of Synthesize: a Move is a Move whatever is held.
SynthesizeAlwaysMove(held, raw) ==
    CASE raw.kind = "Press" ->
            [mouse |-> Some(raw.button), kind |-> Some(Press(raw.button))]
      [] raw.kind = "Release" ->
            IF held.none THEN [mouse |-> None, kind |-> None]
            ELSE [mouse |-> None,
                  kind |-> Some([kind |-> "Release", button |-> held.value])]
      [] OTHER -> [mouse |-> held, kind |-> Some(raw)]

\* The synthetic mouse kind of a raw mouse kind, and the held button after
\* it; no kind when the event is dropped (`continue`).
Synthesize(held, raw) ==
    CASE raw.kind = "Press" ->
            [mouse |-> Some(raw.button), kind |-> Some(Press(raw.button))]
      [] raw.kind = "Release" ->
            IF held.none THEN [mouse |-> None, kind |-> None]
            ELSE [mouse |-> None,
                  kind |-> Some([kind |-> "Release", button |-> held.value])]
      [] raw.kind = "Move" ->
            IF held.none THEN [mouse |-> held, kind |-> Some(Move)]
            ELSE [mouse |-> held,
                  kind |-> Some([kind |-> "Drag", button |-> held.value])]
      [] OTHER -> [mouse |-> held, kind |-> Some(raw)]

\* The match on the terminal event: the terminal after it and the input to
\* hand to the element, if any.
Decode(r, ev) ==
    CASE ev.type = "Key" -> [r |-> r, input |-> Some([kind |-> "Key", key |-> ev.key])]
      [] ev.type = "Mouse" ->
            LET s == Synthesize(r.mouse, ev.kind)
            IN [r |-> [r EXCEPT !.mouse = s.mouse],
                input |-> IF s.kind.none THEN None
                          ELSE Some([kind |-> s.kind.value.kind, mouse |-> s.kind.value,
                                     at |-> ev.at,
                                     size |-> Vec2(r.buffer.grid.w, r.buffer.grid.h)])]
      [] OTHER -> [r |-> r, input |-> None]

\* Mutant of IsResize: every Resize event takes the resizing arm.
IsResizeAny(r, ev) == ev.type = "Resize"

\* Whether the event is a Resize the match arm's guard lets through.
IsResize(r, ev) ==
    ev.type = "Resize" /\ ev.size # Vec2(r.buffer.grid.w, r.buffer.grid.h)

\* The number of values of a u16, the type of sizes and positions.
U16 == 65536

\* a - b on u16 where overflow is not checked: the difference wraps around.
WrappingSub(a, b) == (a - b) % U16

\* Whether a - b on u16 overflows: where overflow is checked, it panics.
SubOverflows(a, b) == a < b

\* Mutant of ResizeBuffers: the held cursor position is left as it is.
ResizeBuffersNoClamp(r, size) ==
    [r EXCEPT
        !.buffer.grid = GridResizeHeight(GridResizeWidth(@, size.x), size.y, r.cursor_pos.y),
        !.old_buffer.grid = GridResizeHeight(GridResizeWidth(@, size.x), size.y, r.cursor_pos.y)]

\* Mutant of ResizeBuffers: the old buffer is left at its size.
ResizeBuffersNewOnly(r, size) ==
    [r EXCEPT
        !.buffer.grid = GridResizeHeight(GridResizeWidth(@, size.x), size.y, r.cursor_pos.y),
        !.cursor_pos = Vec2(Min(r.cursor_pos.x, WrappingSub(size.x, 1)),
                            Min(r.cursor_pos.y, WrappingSub(size.y, 1)))]

\* The Resize arm: both buffers resized, the held cursor position clamped.
ResizeBuffers(r, size) ==
    [r EXCEPT
        !.buffer.grid = GridResizeHeight(GridResizeWidth(@, size.x), size.y, r.cursor_pos.y),
        !.old_buffer.grid = GridResizeHeight(GridResizeWidth(@, size.x), size.y, r.cursor_pos.y),
        !.cursor_pos = Vec2(Min(r.cursor_pos.x, WrappingSub(size.x, 1)),
                            Min(r.cursor_pos.y, WrappingSub(size.y, 1)))]

\* The terminal the backend drives, resized: it keeps its cursor's row.
BackendResize(b, size) ==
    IF b = NoScreen THEN b ELSE
    [b EXCEPT
        !.grid = GridResizeHeight(GridResizeWidth(@, size.x), size.y, b.cursor_pos.y),
        !.cursor_pos = Vec2(Min(b.cursor_pos.x, size.x - 1), Min(b.cursor_pos.y, size.y - 1))]

\* The Resize arm up to a panic of one of its subtractions, in a build that
\* checks overflow: both grids are resized, and the column of the held cursor
\* position is clamped if it was the row's subtraction that panicked.
ResizeUnwound(r, size) ==
    [r EXCEPT
        !.buffer.grid = GridResizeHeight(GridResizeWidth(@, size.x), size.y, r.cursor_pos.y),
        !.old_buffer.grid = GridResizeHeight(GridResizeWidth(@, size.x), size.y, r.cursor_pos.y),
        !.cursor_pos = IF SubOverflows(size.x, 1) THEN @
                       ELSE Vec2(Min(r.cursor_pos.x, size.x - 1), r.cursor_pos.y)]

\* The terminal's fields after a step.
Store(r) ==
    /\ title' = r.title
    /\ old_buffer' = r.old_buffer
    /\ buffer' = r.buffer
    /\ cursor_pos' = r.cursor_pos
    /\ style' = r.style
    /\ mouse' = r.mouse
    /\ drawn' = r.drawn
    /\ ops' = r.ops
    /\ err' = IF r.err THEN r.failAt ELSE 0
    /\ failures' = IF r.err THEN failures + 1 ELSE failures

\* The most backend operations that fail in one run of the model.
MaxFailures == 1

\* The operations that can be made to fail in a step that issues n of them
\* (0: none fails).
FailPoints(fail, n) == IF fail /\ failures < MaxFailures THEN 0..n ELSE {0}

\* draw from its start to its first await.
DrawStart(failAt, e) == Frame(UpdateTitle(Run(failAt), e), e)

\* terminal.draw(e) up to its first await or its return with an error.
DrawCall(e, fail) ==
    /\ pc = "idle"
    /\ \E failAt \in FailPoints(fail, Len(DrawStart(0, e).ops)) :
         \E r \in {DrawStart(failAt, e)} :
            /\ Store(r)
            /\ backend' = BackendAfter(backend, r)
            /\ pc' = IF r.err THEN "idle" ELSE "await"
            /\ ret' = IF r.err THEN Err("Backend") ELSE None
    /\ element' = e
    /\ delivered' = <<>>
    /\ UNCHANGED <<rawHist, life, filters>>

\* What read_event resolves with when it fails.
ReadFailed == [type |-> "Error"]

\* draw from read_event resolving with ev to the next read_event, or to the
\* element's handling of the input: the terminal then, and the input handed
\* to element.handle, if any.
AfterEvent(failAt, ev, e) ==
    LET r == Emit(Run(failAt), "ReadEvent", IF failAt = 1 THEN ReadFailed ELSE ev)
    IN IF r.err THEN [r |-> r, input |-> None]
       ELSE IF IsResize(r, ev)
            THEN [r |-> Frame(ResizeBuffers(r, ev.size), e), input |-> None]
       ELSE Decode(r, ev)

\* Mutant of Returns: draw returns only when the sink received several events.
ReturnsSeveral(events) == Len(events) >= 2

\* Mutant of Returns: draw reads on whatever the sink received.
ReturnsNever(events) == FALSE

\* Mutant of Returns: draw returns after every call of handle.
ReturnsAlways(events) == TRUE

\* Whether draw returns the events the sink received.
Returns(events) == events # <<>>

\* read_event() resolves with ev (or fails), and draw runs on to its next
\* await or to its return.
ReadEvent(ev, fail, track) ==
    /\ pc = "await"
    /\ \E failAt \in FailPoints(fail, Len(AfterEvent(0, ev, element).r.ops)) :
         \E a \in {AfterEvent(failAt, ev, element)} :
         LET r == a.r
             input == a.input
             events == IF input.none THEN <<>> ELSE Handle(element, input.value)
         IN /\ Store(r)
            /\ backend' = BackendAfter(IF failAt # 1 /\ IsResize(Run(0), ev)
                                       THEN BackendResize(backend, ev.size)
                                       ELSE backend, r)
            /\ delivered' = IF input.none THEN <<>> ELSE <<input.value>>
            /\ pc' = IF r.err THEN "idle"
                     ELSE IF ~input.none /\ Returns(events) THEN "idle" ELSE "await"
            /\ ret' = IF r.err THEN Err("Backend")
                      ELSE IF ~input.none /\ Returns(events) THEN Ok(events) ELSE None
            /\ rawHist' = IF track /\ failAt # 1 /\ ev.type = "Mouse"
                          THEN Append(rawHist, ev.kind) ELSE rawHist
    /\ UNCHANGED <<element, life, filters>>

\* The future returned by draw is dropped at its await.
Cancel ==
    /\ pc = "await"
    /\ pc' = "idle"
    /\ ret' = None
    /\ ops' = <<>>
    /\ err' = 0
    /\ delivered' = <<>>
    /\ UNCHANGED <<title, old_buffer, buffer, cursor_pos, style, mouse, backend,
                   element, drawn, rawHist, failures, life, filters>>

\* The terminal Terminal::new returns for a backend of one of the sizes, the
\* backend's screen modelled (the virtual backend) or not.
InitWith(sizes, screen) ==
    \E size \in sizes :
        /\ title = <<>>
        /\ old_buffer = BufferFrom(GridNew(size))
        /\ buffer = BufferFrom(GridNew(size))
        /\ cursor_pos = Vec2(0, 0)
        /\ style = DefaultStyle
        /\ mouse = None
        /\ backend = IF screen THEN BackendNew(GridNew(size)) ELSE NoScreen
        /\ pc = "idle"
        /\ element = None /\ ret = None /\ ops = <<>> /\ err = 0
        /\ delivered = <<>> /\ drawn = None /\ rawHist = <<>> /\ failures = 0
        /\ LifeIdle
        /\ FiltersIdle

\* The draw loop, every backend operation succeeding.
Init == InitWith(GridSizes, FALSE)

Next ==
    \/ \E e \in Elements : DrawCall(e, FALSE)
    \/ \E ev \in TerminalEvents : ReadEvent(ev, FALSE, FALSE)
    \/ Cancel

Spec == Init /\ [][Next]_vars

\* The draw loop with failing backend operations.
NextFail ==
    \/ \E e \in Elements : DrawCall(e, TRUE)
    \/ \E ev \in TerminalEvents : ReadEvent(ev, TRUE, FALSE)
    \/ Cancel

SpecFail == Init /\ [][NextFail]_vars

\* Frames on a terminal bound to the virtual backend: draw calls that return
\* on a key press or are dropped, every backend operation succeeding.
InitFrames == InitWith(GridSizes, TRUE)

\* The elements drawn frame after frame: those of the draw loop, and one
\* that writes a double-width glyph after a narrow one.
FrameElements ==
    Elements \cup {Element(<<"a", "W">>, RedStyle, "none", <<"t">>, {"Key"}, <<"Quit">>)}

NextFrames ==
    \/ \E e \in FrameElements : DrawCall(e, FALSE)
    \/ ReadEvent(Key("q"), FALSE, FALSE)
    \/ Cancel

SpecFrames == InitFrames /\ [][NextFrames]_vars

\* What the backend shows is what the buffer holds: the grid, whether there
\* is a cursor, and where it is.
Shows(b, buf) ==
    /\ b.grid = buf.grid
    /\ b.cursor_visible = ~buf.cursor.none
    /\ ~buf.cursor.none => b.cursor_pos = buf.cursor.pos

\* C2: after every frame (draw awaits the next event) the backend shows the
\* buffer that was drawn last.
C2_BackendShowsFrame == pc = "await" => Shows(backend, drawn)

\* C3: whenever draw returns Ok(events), events holds at least one event.
C3_NeverEmpty == ("ok" \in DOMAIN ret /\ ret.ok) => Len(ret.value) >= 1

\* draw has returned the events of an element that was handed a synthetic
\* Release, on the widest screen.
C3_Witness ==
    /\ pc = "idle" /\ "ok" \in DOMAIN ret /\ ret.ok
    /\ delivered # <<>> /\ delivered[1].kind = "Release"
    /\ Len(ret.value) = 2
    /\ old_buffer.grid.w = MaxW

\* C8: when a backend operation fails during draw, draw returns
\* Error::Backend at once: the failed operation is the last one issued and
\* the element is handed no input.
C8_FailureReturns ==
    err # 0 => /\ ret = Err("Backend")
               /\ pc = "idle"
               /\ err = Len(ops)
               /\ delivered = <<>>

\* An operation of the differ has failed before the last one it would issue.
C8_Witness ==
    /\ err # 0 /\ ops[err].op = "SetCursorPos" /\ ret = Err("Backend")

\* draw has failed at read_event.
C8_WitnessRead ==
    /\ err # 0 /\ ops[err].op = "ReadEvent" /\ ret = Err("Backend")

\* The buffers between frames: the new buffer clear, the old one the last
\* frame drawn, both of one size.
Consistent ==
    /\ buffer = BufferFrom(GridNew(Vec2(buffer.grid.w, buffer.grid.h)))
    /\ old_buffer = drawn
    /\ old_buffer.grid.w = buffer.grid.w /\ old_buffer.grid.h = buffer.grid.h

\* C9: at the awaited read_event, the only point where the future can be
\* dropped, the buffers are consistent, and dropping the future there leaves
\* the terminal as the last processed event left it.
C9_CancelConsistent ==
    /\ [](pc = "await" => Consistent)
    /\ [][pc = "await" /\ pc' = "idle" /\ ret' = None =>
            /\ Consistent'
            /\ UNCHANGED <<title, old_buffer, buffer, cursor_pos, style, mouse>>]_vars

\* The future has been dropped after a frame that drew text and a cursor, in
\* a terminal holding a mouse button.
C9_Witness ==
    /\ pc = "idle" /\ ret = None /\ element # None
    /\ old_buffer # BufferFrom(GridNew(Vec2(buffer.grid.w, buffer.grid.h)))
    /\ ~old_buffer.cursor.none
    /\ ~mouse.none

\* ------------------------------------------------- the mouse state machine

\* The most raw mouse events read in one run of the model.
MaxHist == 4

\* The draw loop reading mouse events and keys, the raw mouse kinds recorded.
InitMouse == InitWith({Vec2(2, 1)}, FALSE)

NextMouse ==
    \/ \E e \in Elements : DrawCall(e, FALSE)
    \/ /\ Len(rawHist) < MaxHist
       /\ \E ev \in MouseEvents \cup {Key("q")} : ReadEvent(ev, FALSE, TRUE)
    \/ Cancel

SpecMouse == InitMouse /\ [][NextMouse]_vars

\* The button of the most recent Press of a history of raw mouse kinds that
\* no later Release has consumed.
RECURSIVE HeldAfter(_)
HeldAfter(h) ==
    IF h = <<>> THEN None
    ELSE LET last == h[Len(h)]
         IN CASE last.kind = "Press" -> Some(last.button)
              [] last.kind = "Release" -> None
              [] OTHER -> HeldAfter(SubSeq(h, 1, Len(h) - 1))

\* The step reads a raw mouse event of the kind.
Reads(kind) == rawHist' # rawHist /\ rawHist'[Len(rawHist')].kind = kind

\* C4: a raw Release is handed to the element as Release(b), b the button of
\* the most recent Press no Release has consumed; with no button held it is
\* dropped: the element is handed nothing and draw keeps awaiting.
C4_ReleaseMatchesPress ==
    [][Reads("Release") =>
        IF HeldAfter(rawHist).none
        THEN delivered' = <<>> /\ pc' = "await"
        ELSE /\ Len(delivered') = 1
             /\ delivered'[1].mouse =
                    [kind |-> "Release", button |-> HeldAfter(rawHist).value]]_vars

\* Two buttons were pressed one after the other, and the Release that
\* followed was delivered for the second; the next Release was dropped.
C4_Witness ==
    /\ Len(rawHist) = 4
    /\ rawHist[1] = Press("Left") /\ rawHist[2] = Press("Right")
    /\ rawHist[3] = Release /\ rawHist[4] = Release
    /\ delivered = <<>> /\ pc = "await" /\ mouse.none

\* C5: a raw Move is handed to the element as Drag(b) exactly when a Press(b)
\* has occurred with no Release since, b the button pressed last, and as Move
\* otherwise.
C5_MoveOrDrag ==
    [][Reads("Move") =>
        /\ Len(delivered') = 1
        /\ delivered'[1].mouse =
               IF HeldAfter(rawHist).none THEN Move
               ELSE [kind |-> "Drag", button |-> HeldAfter(rawHist).value]]_vars

\* A Move after a Press and its Release was delivered as Move, after a Move
\* with the button held was delivered as Drag.
C5_Witness ==
    /\ Len(rawHist) = 4
    /\ rawHist[1] = Press("Right") /\ rawHist[2] = Move
    /\ rawHist[3] = Release /\ rawHist[4] = Move
    /\ Len(delivered) = 1 /\ delivered[1].mouse = Move

\* ------------------------------------------------- the terminal singleton

\* The terminal fields the singleton's operations do not read.
draws == <<title, old_buffer, buffer, cursor_pos, style, mouse, backend, pc,
           element, ret, ops, err, delivered, drawn, rawHist, failures>>

\* A call of the constructor, of take_captured or of a destructor, its
\* result, and what it gave up: whether a bound backend (bound) and an
\* untaken reader of the captured output (captured) ended with the call, how
\* often Bound::reset was called (resets) and how often the captured output
\* was copied to stdout (drained), and which operation of it failed.
Called(op, i, dummy, result, ended) ==
    [op |-> op, slot |-> i, dummy |-> dummy, result |-> result, ended |-> ended]

Ended(bound, captured, resets, drained, failed) ==
    [bound |-> bound, captured |-> captured, resets |-> resets, drained |-> drained,
     failed |-> failed]

NothingEnded == Ended(FALSE, FALSE, 0, 0, "none")

\* Mutant of NewPanics: Terminal::new never panics.
NewPanicsNever(dummy, exists) == FALSE

\* !B::is_dummy() && TERMINAL_EXISTS.swap(true, Acquire)
NewPanics(dummy, exists) == ~dummy /\ exists

\* Mutant of FlagAfterNew: the flag is loaded, not swapped.
FlagAfterNewLoaded(dummy, exists) == exists

\* The flag after the swap: set unless the backend is a dummy (&& does not
\* evaluate the swap then).
FlagAfterNew(dummy, exists) == IF dummy THEN exists ELSE TRUE

\* Mutant of FlagAfterDrop: the destructor leaves the flag alone.
FlagAfterDropKept(dummy, exists) == exists

\* The flag after Drop::drop: cleared unless the backend is a dummy.
FlagAfterDrop(dummy, exists) == IF ~dummy THEN FALSE ELSE exists

\* Terminal::new(backend) up to its swap of the flag: it panics, or goes on
\* to set the backend up.
NewSwap(i, dummy) ==
    /\ terminals[i].state = "none"
    /\ IF NewPanics(dummy, TERMINAL_EXISTS)
       THEN /\ outcome' = Called("new", i, dummy, "panic", NothingEnded)
            /\ UNCHANGED terminals
       ELSE /\ outcome' = Called("swap", i, dummy, "ok", NothingEnded)
            /\ terminals' = [terminals EXCEPT ![i] =
                                [state |-> "binding", dummy |-> dummy]]
    /\ TERMINAL_EXISTS' = FlagAfterNew(dummy, TERMINAL_EXISTS)
    /\ UNCHANGED <<draws, filters>>

\* Where Terminal::new can fail after the swap: Tty::new (not for a dummy),
\* backend.bind, and the operations on the bound backend up to size().
NewFailures == {"none", "tty", "bind", "op"}

\* The error Terminal::new returns for a failure.
NewError(fail) == IF fail = "tty" THEN "Stdio" ELSE "Backend"

\* Terminal::new from Tty::new on: it returns the terminal, or an error; the
\* `?` after a successful bind drops the bound backend as it is.
NewFinish(i, fail) ==
    /\ terminals[i].state = "binding"
    /\ ~(fail = "tty" /\ terminals[i].dummy)
    /\ terminals' = [terminals EXCEPT ![i] =
            IF fail = "none"
            THEN [state |-> "alive", dummy |-> terminals[i].dummy,
                  backend |-> TRUE, captured |-> ~terminals[i].dummy]
            ELSE NoTerminal]
    /\ outcome' = Called("new", i, terminals[i].dummy,
                         IF fail = "none" THEN "ok" ELSE NewError(fail),
                         Ended(fail = "op", fail \in {"bind", "op"} /\ ~terminals[i].dummy,
                               0, 0, fail))
    /\ UNCHANGED <<TERMINAL_EXISTS, draws, filters>>

\* terminal.take_captured()
TakeCaptured(i) ==
    /\ terminals[i].state = "alive"
    /\ terminals' = [terminals EXCEPT ![i].captured = FALSE]
    /\ outcome' = Called("take_captured", i, terminals[i].dummy,
                         IF terminals[i].captured THEN "some" ELSE "none",
                         NothingEnded)
    /\ UNCHANGED <<TERMINAL_EXISTS, draws, filters>>

\* Where cleanup_inner can fail: backend.reset(), Tty::cleanup, io::copy.
CleanupFailures == {"none", "reset", "tty", "copy"}

\* cleanup_inner on a terminal t: the terminal after it, its result, and
\* the calls of Bound::reset and the copies of the captured output it made.
CleanupInner(t, fail) ==
    LET taken == [t EXCEPT !.backend = FALSE]
        reset == IF t.backend THEN 1 ELSE 0
    IN IF t.backend /\ fail \in {"reset", "tty"}
       THEN [t |-> taken, resets |-> reset, drained |-> 0, failed |-> fail,
             result |-> IF fail = "reset" THEN "Backend" ELSE "Stdio"]
       ELSE IF t.captured /\ fail = "copy"
       THEN [t |-> [taken EXCEPT !.captured = FALSE], resets |-> reset,
             drained |-> 1, failed |-> fail, result |-> "Stdio"]
       ELSE [t |-> [taken EXCEPT !.captured = FALSE], resets |-> reset,
             drained |-> IF t.captured THEN 1 ELSE 0,
             failed |-> "none", result |-> "ok"]

\* Drop::drop on a terminal t after a run of cleanup_inner: cleanup_inner
\* again, its result ignored.
DropInner(t, fail) == CleanupInner(t, fail)

\* What Drop::drop lets out of cleanup_inner's result: nothing.
DropResult(d) == "ok"

\* Mutant of CleanupResult: cleanup() returns Ok whatever cleanup_inner did.
CleanupResultOk(c) == "ok"

\* self.cleanup_inner()?; Ok(())
CleanupResult(c) == c.result

\* drop(terminal): cleanup_inner, its result ignored, then the flag.
Drop(i, fail) ==
    /\ terminals[i].state = "alive"
    /\ \E d \in {DropInner(terminals[i], fail)} :
         outcome' = Called("drop", i, terminals[i].dummy, DropResult(d),
                           Ended(terminals[i].backend, terminals[i].captured,
                                 d.resets, d.drained, d.failed))
    /\ terminals' = [terminals EXCEPT ![i] = NoTerminal]
    /\ TERMINAL_EXISTS' = FlagAfterDrop(terminals[i].dummy, TERMINAL_EXISTS)
    /\ UNCHANGED <<draws, filters>>

\* terminal.cleanup(): cleanup_inner succeeds or fails, and self is dropped
\* as cleanup returns either way.
Cleanup(i, fail) ==
    /\ terminals[i].state = "alive"
    /\ \E c \in {CleanupInner(terminals[i], fail)} :
       \E d \in {DropInner(c.t, "none")} :
         outcome' = Called("cleanup", i, terminals[i].dummy, CleanupResult(c),
                           Ended(terminals[i].backend, terminals[i].captured,
                                 c.resets + d.resets, c.drained + d.drained,
                                 c.failed))
    /\ terminals' = [terminals EXCEPT ![i] = NoTerminal]
    /\ TERMINAL_EXISTS' = FlagAfterDrop(terminals[i].dummy, TERMINAL_EXISTS)
    /\ UNCHANGED <<draws, filters>>

\* The threads of a process constructing and dropping terminals.
InitLife == InitWith({Vec2(1, 1)}, FALSE)

NextLife ==
    \/ \E i \in Slots, dummy \in BOOLEAN : NewSwap(i, dummy)
    \/ \E i \in Slots, fail \in NewFailures : NewFinish(i, fail)
    \/ \E i \in Slots : TakeCaptured(i)
    \/ \E i \in Slots, fail \in CleanupFailures : Drop(i, fail)
    \/ \E i \in Slots, fail \in CleanupFailures : Cleanup(i, fail)

SpecLife == InitLife /\ [][NextLife]_vars

\* The terminals alive on a backend that is not a dummy.
AliveReal(ts) == {i \in Slots : ts[i].state = "alive" /\ ~ts[i].dummy}

AliveDummy(ts) == {i \in Slots : ts[i].state = "alive" /\ ts[i].dummy}

\* C6: at most one terminal with a non-dummy backend is alive at any time,
\* and Terminal::new for a non-dummy backend panics whenever another such
\* terminal is alive; dummy-backend terminals coexist in any number.
C6_Singleton ==
    /\ [](Cardinality(AliveReal(terminals)) <= 1)
    /\ [][\A i \in Slots :
            (/\ terminals[i].state = "none"
             /\ outcome'.slot = i /\ outcome'.op \in {"new", "swap"}
             /\ ~outcome'.dummy
             /\ AliveReal(terminals) # {})
            => outcome'.result = "panic" /\ terminals' = terminals]_vars

\* Terminal::new has panicked for a non-dummy backend while a non-dummy
\* terminal and two dummy-backend terminals were alive.
C6_Witness ==
    /\ outcome.op = "new" /\ outcome.result = "panic" /\ ~outcome.dummy
    /\ Cardinality(AliveReal(terminals)) = 1
    /\ Cardinality(AliveDummy(terminals)) = 2

\* C7: once a non-dummy terminal has been dropped or consumed by cleanup(),
\* whether cleanup succeeded or failed, the flag is clear: Terminal::new for
\* a non-dummy backend does not panic.
C7_FlagCleared ==
    [][\A i \in Slots :
        (i \in AliveReal(terminals) /\ terminals'[i].state = "none")
        => ~TERMINAL_EXISTS' /\ ~NewPanics(FALSE, TERMINAL_EXISTS')]_vars

\* The cleanup() of a non-dummy terminal has failed while a dummy-backend
\* terminal was alive, and the flag is clear.
C7_Witness ==
    /\ outcome.op = "cleanup" /\ outcome.result = "Backend" /\ ~outcome.dummy
    /\ AliveDummy(terminals) # {}
    /\ ~TERMINAL_EXISTS

\* ------------------------------------------------ handle between two draws

C12_ResetOnce == outcome.op # "none" /\ outcome.ended.bound => outcome.ended.resets = 1

\* ----------------------------------------------------------------- resize

SizeOf(buf) == Vec2(buf.grid.w, buf.grid.h)

\* The step reads a Resize event to another size than the buffers have.
Resized == pc = "await" /\ SizeOf(buffer') # SizeOf(buffer)

\* The previous frame as the Resize arm resizes it to the size, its height
\* anchored at the held cursor's row.
ResizedOld(size) ==
    GridResizeHeight(GridResizeWidth(old_buffer.grid, size.x), size.y, cursor_pos.y)

ReadsEvent(ev) ==
    /\ pc = "await" /\ Len(ops') >= 1
    /\ ops'[1].op = "ReadEvent" /\ ops'[1].arg = ev

\* C14: a Resize to the size the buffers have changes nothing: the buffers,
\* the held cursor position, style and mouse button stay, read_event is the
\* only backend operation, the element neither draws nor is handed an input,
\* and draw awaits the next event.
C14_SameSizeIgnored ==
    [][ReadsEvent(Resize(SizeOf(buffer))) =>
        /\ UNCHANGED <<title, old_buffer, buffer, cursor_pos, style, mouse, drawn>>
        /\ Len(ops') = 1
        /\ delivered' = <<>>
        /\ pc' = "await"]_vars

\* A Resize to the current size was read with a frame with a cursor on the
\* screen and a mouse button held.
C14_Witness ==
    /\ pc = "await" /\ ops = <<Op("ReadEvent", Resize(SizeOf(buffer)))>>
    /\ ~old_buffer.cursor.none /\ ~mouse.none
    /\ cursor_pos # Vec2(0, 0)

\* ------------------------------------------------------------------ title

\* The indexes of the set_title operations of a stream.
SetTitles(stream) == {i \in 1..Len(stream) : stream[i].op = "SetTitle"}

\* C15: a draw call issues set_title exactly when the title the element
\* streams differs from the cached title or is empty; it is then the first
\* operation, issued once, with the element's title or, that being empty,
\* the default title, which becomes the cached title; an equal non-empty
\* title issues none.
C15_TitleReconciled ==
    [][pc = "idle" /\ pc' = "await" =>
        LET new == element'.title
            set == new # title \/ new = <<>>
        IN /\ SetTitles(ops') = IF set THEN {1} ELSE {}
           /\ set => ops'[1].arg = IF new = <<>> THEN DefaultTitle ELSE new
           /\ title' = IF set THEN ops'[1].arg ELSE title]_vars

\* A draw call with the cached title issued no set_title, and the cached
\* title is a proper prefix of another element's title.
C15_Witness ==
    /\ pc = "await" /\ SetTitles(ops) = {}
    /\ element.title = <<"t">> /\ title = <<"t">>
    /\ \E e \in Elements : Len(e.title) = 2 /\ e.title[1] = "t"

\* ------------------------------------------------------ captured output

\* C16: the teardown of a non-dummy terminal, by cleanup() or by Drop, copies
\* the captured output to stdout exactly when the reader has not been taken;
\* take_captured leaves no reader to take again and returns None for a dummy
\* backend.
C16_DrainedUnlessTaken ==
    /\ (outcome.op \in {"drop", "cleanup"} /\ ~outcome.dummy)
         => outcome.ended.drained = IF outcome.ended.captured THEN 1 ELSE 0
    /\ outcome.op = "take_captured"
         => /\ ~terminals[outcome.slot].captured
            /\ outcome.dummy => outcome.result = "none"

\* ------------------------------------------------------- teardown errors

\* The error cleanup_inner returns when the operation fails.
ErrorOf(failed) ==
    CASE failed = "none" -> "ok"
      [] failed = "reset" -> "Backend"
      [] OTHER -> "Stdio"

\* C17: cleanup() returns the error of the backend's reset or of the
\* standard streams that it meets; Drop lets no error out, whatever failed;
\* both leave the terminal-exists flag clear for a non-dummy backend.
C17_TeardownErrors ==
    /\ outcome.op = "cleanup" => outcome.result = ErrorOf(outcome.ended.failed)
    /\ outcome.op = "drop" => outcome.result = "ok"
    /\ (outcome.op \in {"cleanup", "drop"} /\ ~outcome.dummy) => ~TERMINAL_EXISTS

\* A non-dummy terminal was dropped, its backend's reset failing, while a
\* dummy-backend terminal was alive.
C17_Witness ==
    /\ outcome.op = "drop" /\ outcome.ended.failed = "reset" /\ ~outcome.dummy
    /\ ~TERMINAL_EXISTS
    /\ AliveDummy(terminals) # {}

\* cleanup() has returned the error of copying the captured output.
C17_WitnessCopy ==
    /\ outcome.op = "cleanup" /\ outcome.ended.failed = "copy"
    /\ outcome.result = "Stdio"

\* ------------------------------------------------------ writes fit a line

\* The k-th operation of the stream is a write that fits the line the
\* backend's cursor is on when it is issued.
WriteFits(b, stream, k) ==
    LET at == ApplyOps(b, stream, k - 1)
    IN at.cursor_pos.x + GlyphWidth(stream[k].arg) <= at.grid.w

\* C18: every write of every frame is the glyph of one cell, issued with the
\* backend's cursor at a column from which the glyph fits the line.
C18_WritesFit ==
    [][\A k \in WriteIndexes(ops') :
        /\ WriteFits(backend, ops', k)
        /\ \E y \in 1..drawn'.grid.h, x \in 1..drawn'.grid.w :
              /\ drawn'.grid.lines[y][x].kind = "Char"
              /\ drawn'.grid.lines[y][x].contents = ops'[k].arg]_vars

\* A frame written "a" with the cursor at the end of a line three cells
\* wide preceded the frame whose double-width glyph did not fit.
C18_Overflowed ==
    /\ pc = "await" /\ drawn.grid.w = 3
    /\ element.text = <<"a", "W">>
    /\ backend.grid # drawn.grid

\* ------------------------------------------------- resizes to an empty size

\* The sizes a Resize event can carry, the empty ones included.
ZeroSizes == {s \in [x : 0..MaxW, y : 0..MaxH] : s.x * s.y <= MaxCells}

\* The elements whose cursor, if any, is at the origin.
ZeroElements == {e \in Elements : e.cursor # "end"}

\* read_event() resolves with a Resize whose size has an empty side, in a
\* build that checks overflow: size.x - 1 or size.y - 1 panics, and draw
\* unwinds out of its loop.
ResizePanics(ev) ==
    /\ pc = "await"
    /\ IsResize(Run(0), ev)
    /\ SubOverflows(ev.size.x, 1) \/ SubOverflows(ev.size.y, 1)
    /\ \E r \in {ResizeUnwound(Emit(Run(0), "ReadEvent", ev), ev.size)} :
          /\ Store(r)
          /\ backend' = BackendAfter(backend, r)
    /\ pc' = "panic"
    /\ ret' = None
    /\ delivered' = <<>>
    /\ UNCHANGED <<element, rawHist, life, filters>>

\* The draw loop under Resize events of every size: where a subtraction
\* overflows, the build either checks it (ResizePanics) or lets it wrap
\* (ReadEvent).
NextZero ==
    \/ \E e \in ZeroElements : DrawCall(e, FALSE)
    \/ \E ev \in {Key("k")} \cup {Resize(s) : s \in ZeroSizes} : ReadEvent(ev, FALSE, FALSE)
    \/ \E s \in ZeroSizes : ResizePanics(Resize(s))
    \/ Cancel

SpecZero == Init /\ [][NextZero]_vars

\* C19: a Resize event to (0, 0) is legal: the step that reads it neither
\* panics nor wraps around, leaves both buffers empty, writes nothing, and
\* the differ's operation stream in the redraw is empty, so that the step's
\* operations are the read and the flush alone.
C19_ZeroResizeLegal ==
    [][ReadsEvent(Resize(Vec2(0, 0))) /\ SizeOf(buffer) # Vec2(0, 0) =>
          /\ pc' = "await"
          /\ SizeOf(buffer') = Vec2(0, 0) /\ SizeOf(old_buffer') = Vec2(0, 0)
          /\ WriteIndexes(ops') = {}
          /\ ops' = <<Op("ReadEvent", Resize(Vec2(0, 0))), Op("Flush", "")>>]_vars

\* ------------------------------------------------------ the Border filter

\* The largest small coordinate of the Border model; the largest u16 is a
\* coordinate too.
MaxBorder == 5

BorderCoords == (0..MaxBorder) \cup {U16 - 1}

SaturatingAdd(a, b) == Min(a + b, U16 - 1)
SaturatingSub(a, b) == IF a < b THEN 0 ELSE a - b
CheckedSub(a, b) == IF a < b THEN None ELSE Some(a - b)

\* Input::Mouse(Mouse { kind, at, size, .. }) and Input::Key(key).
MouseInput(kind, at, size) == [type |-> "Mouse", kind |-> kind, at |-> at, size |-> size]
KeyInput(key) == [type |-> "Key", key |-> key]

\* The area Border::draw draws the wrapped element in, on an output of the
\* size: its top left corner and its size.
BorderDrawArea(b, size) ==
    [top_left |-> Vec2(IF b.padding THEN 2 ELSE 1, 1),
     size |-> Vec2(SaturatingSub(size.x, IF b.padding THEN 4 ELSE 2),
                   SaturatingSub(size.y, 2))]

\* The closure of Border::handle for a mouse input: the input for the wrapped
\* element, or None.
BorderMouse(xborder, xadded, m) ==
    IF \/ SaturatingAdd(m.at.x, xborder) >= m.size.x
       \/ SaturatingAdd(m.at.y, 1) >= m.size.y
    THEN None
    ELSE LET x == CheckedSub(m.at.x, xborder)
             y == CheckedSub(m.at.y, 1)
             w == CheckedSub(m.size.x, xadded)
             h == CheckedSub(m.size.y, 2)
         IN IF x.none \/ y.none \/ w.none \/ h.none THEN None
            ELSE Some([m EXCEPT !.at = Vec2(x.value, y.value),
                                !.size = Vec2(w.value, h.value)])

\* Mutant of BorderHandle: the mouse is translated as if without padding.
BorderHandleUnpadded(b, inp) ==
    IF inp.type = "Key" THEN Some(inp) ELSE BorderMouse(1, 2, inp)

\* Border::handle: the input handed to the wrapped element, if any.
BorderHandle(b, inp) ==
    IF inp.type = "Key" THEN Some(inp)
    ELSE BorderMouse(IF b.padding THEN 2 ELSE 1, IF b.padding THEN 4 ELSE 2, inp)

\* The inputs of the Border model on an output of the size.
BorderInputs(size) ==
    {KeyInput("k")} \cup
    {MouseInput(k, at, size) : k \in {"Press", "Move"}, at \in [x : BorderCoords, y : BorderCoords]}

\* A Border filter, an output size and an input of that size; nothing drawn
\* or handled yet. The terminal is idle.
InitBorder ==
    /\ \E padding \in BOOLEAN, size \in [x : BorderCoords, y : BorderCoords] :
          /\ border = [padding |-> padding, size |-> size]
          /\ border_input \in BorderInputs(size)
    /\ area = None
    /\ forwarded = [called |-> FALSE]
    /\ filtered = None /\ arith = None
    /\ title = <<>> /\ old_buffer = BufferFrom(GridNew(Vec2(1, 1)))
    /\ buffer = BufferFrom(GridNew(Vec2(1, 1)))
    /\ cursor_pos = Vec2(0, 0) /\ style = DefaultStyle /\ mouse = None
    /\ backend = NoScreen /\ pc = "idle"
    /\ element = None /\ ret = None /\ ops = <<>> /\ err = 0
    /\ delivered = <<>> /\ drawn = None /\ rawHist = <<>> /\ failures = 0
    /\ LifeIdle

\* border.draw(element, output) on an output of the size.
BorderDraw ==
    /\ area = None
    /\ area' = Some(BorderDrawArea(border, border.size))
    /\ UNCHANGED <<draws, life, border, border_input, forwarded, filtered, arith>>

\* border.handle(element, input, events).
BorderHandleStep ==
    /\ ~forwarded.called
    /\ forwarded' = [called |-> TRUE, input |-> BorderHandle(border, border_input)]
    /\ UNCHANGED <<draws, life, border, border_input, area, filtered, arith>>

NextBorder == BorderDraw \/ BorderHandleStep

SpecBorder == InitBorder /\ [][NextBorder]_vars

\* Whether the position lies in the rectangle.
Inside(at, rect) ==
    /\ rect.top_left.x <= at.x /\ at.x < rect.top_left.x + rect.size.x
    /\ rect.top_left.y <= at.y /\ at.y < rect.top_left.y + rect.size.y

\* C20: Border::handle forwards a mouse input exactly if its position lies in
\* the rectangle Border::draw draws the wrapped element in; the forwarded
\* input's position is translated by the rectangle's corner, its size is the
\* rectangle's, its position lies strictly inside its size, and the rest of
\* it is unchanged; a key input is forwarded unchanged.
C20_HandleMatchesDraw ==
    forwarded.called /\ ~area.none =>
        IF border_input.type = "Key" THEN forwarded.input = Some(border_input)
        ELSE /\ ~forwarded.input.none <=> Inside(border_input.at, area.value)
             /\ ~forwarded.input.none =>
                   LET m == forwarded.input.value
                   IN /\ m.at = Vec2(border_input.at.x - area.value.top_left.x,
                                      border_input.at.y - area.value.top_left.y)
                      /\ m.size = area.value.size
                      /\ m.at.x < m.size.x /\ m.at.y < m.size.y
                      /\ m.type = "Mouse" /\ m.kind = border_input.kind

\* A padded border forwarded a mouse input of its drawn area, and one
\* outside it was dropped: both cases of C20 happen.
C20_Witness ==
    /\ forwarded.called /\ ~area.none /\ border.padding
    /\ border_input.type = "Mouse" /\ ~forwarded.input.none
    /\ border_input.at = Vec2(2, 1) /\ border.size = Vec2(5, 3)

C20_WitnessDropped ==
    /\ forwarded.called /\ ~area.none /\ border.padding
    /\ border_input.type = "Mouse" /\ forwarded.input.none
    /\ border_input.at = Vec2(1, 1) /\ border.size = Vec2(5, 3)

\* ------------------------------------------------------ Border::draw

\* The tallest output of the Border drawing model (the widest: MaxBorder).
MaxBorderH == 3

BorderSizes == [x : 0..MaxBorder, y : 0..MaxBorderH]

\* Border { sides, corners, style, title_style, .. }: single-width glyphs in
\* the order of the fields, and two styles.
BorderSides == [top |-> "-", left |-> "(", right |-> ")", bottom |-> "_"]
BorderCorners == [top_left |-> "1", top_right |-> "2", bottom_left |-> "3", bottom_right |-> "4"]
BorderStyle == RedStyle
TitleStyle == GreenStyle

Alignments == {"Start", "Middle", "End"}

\* A cell a grid held before the frame: what no write has touched.
Prior == Char("x", FALSE, DefaultStyle)

PriorGrid(size) ==
    [w |-> size.x, h |-> size.y,
     lines |-> [r \in 1..size.y |-> [c \in 1..size.x |-> Prior]]]

\* A call of output.write_char(pos, ch, style).
WriteChar(pos, ch, st) == [pos |-> pos, ch |-> ch, style |-> st]

\* The calls applied to the grid in order.
RECURSIVE ApplyWrites(_, _)
ApplyWrites(grid, writes) ==
    IF writes = <<>> THEN grid
    ELSE ApplyWrites(GridWriteChar(grid, Head(writes).pos, Head(writes).ch, Head(writes).style),
                     Tail(writes))

\* write_char on the area view of an output: positions outside the area's
\* size are dropped, a double-wide glyph in the area's last column degrades
\* to a blank, and the rest is translated by the area's corner.
AreaWriteChar(rect, pos, ch, st) ==
    IF pos.x >= rect.size.x \/ pos.y >= rect.size.y THEN <<>>
    ELSE IF GlyphWidth(ch) = 2 /\ pos.x + 1 >= rect.size.x
         THEN <<WriteChar(Vec2(pos.x + rect.top_left.x, pos.y + rect.top_left.y),
                          " ", DefaultStyle)>>
    ELSE <<WriteChar(Vec2(pos.x + rect.top_left.x, pos.y + rect.top_left.y), ch, st)>>

\* Span::draw on the area view: the glyphs of the text from the area's
\* origin on, each advancing x by its display width.
RECURSIVE AreaWrite(_, _, _, _)
AreaWrite(rect, pos, text, st) ==
    IF text = <<>> THEN <<>>
    ELSE AreaWriteChar(rect, pos, Head(text), st)
         \o AreaWrite(rect, Vec2(pos.x + GlyphWidth(Head(text)), pos.y), Tail(text), st)

\* The positions of the right and bottom borders, if present.
BorderEdge(dimension) == IF dimension > 1 THEN Some(dimension - 1) ELSE None

\* The rows between the top and the bottom border: 1..h.saturating_sub(1),
\* the end excluded.
InnerRows(size) == SaturatingSub(SaturatingSub(size.y, 1), 1)

\* Mutant of PaddingWrites: the padding is not filled.
PaddingWritesNone(b, size) == <<>>

\* "Fill the padding."
PaddingWrites(b, size) ==
    LET right_border == BorderEdge(size.x)
        k == IF right_border.none THEN 1 ELSE 2
    IN IF ~b.padding THEN <<>>
       ELSE [i \in 1..(k * InnerRows(size)) |->
               LET y == ((i - 1) \div k) + 1
               IN IF (i - 1) % k = 0 THEN WriteChar(Vec2(1, y), " ", BorderStyle)
                  ELSE WriteChar(Vec2(right_border.value - 1, y), " ", BorderStyle)]

\* "Write corners"
CornerWrites(size) ==
    LET right_border == BorderEdge(size.x)
        bottom_border == BorderEdge(size.y)
    IN <<WriteChar(Vec2(0, 0), BorderCorners.top_left, BorderStyle)>>
       \o (IF right_border.none THEN <<>>
           ELSE <<WriteChar(Vec2(right_border.value, 0), BorderCorners.top_right, BorderStyle)>>)
       \o (IF bottom_border.none THEN <<>>
           ELSE <<WriteChar(Vec2(0, bottom_border.value), BorderCorners.bottom_left, BorderStyle)>>)
       \o (IF right_border.none \/ bottom_border.none THEN <<>>
           ELSE <<WriteChar(Vec2(right_border.value, bottom_border.value),
                            BorderCorners.bottom_right, BorderStyle)>>)

\* "Write both sides"
SideWrites(size) ==
    LET right_border == BorderEdge(size.x)
        k == IF right_border.none THEN 1 ELSE 2
    IN [i \in 1..(k * InnerRows(size)) |->
          LET y == ((i - 1) \div k) + 1
          IN IF (i - 1) % k = 0 THEN WriteChar(Vec2(0, y), BorderSides.left, BorderStyle)
             ELSE WriteChar(Vec2(right_border.value, y), BorderSides.right, BorderStyle)]

\* title_width: the sum of the display widths of the title's glyphs.
RECURSIVE TitleWidth(_)
TitleWidth(ttl) ==
    IF ttl = <<>> THEN 0 ELSE SaturatingAdd(GlyphWidth(Head(ttl)), TitleWidth(Tail(ttl)))

\* Mutant of TitleStart: every title starts right of the corner.
TitleStartAtStart(align, size, ttl) == 1

\* get_title_start
TitleStart(align, size, ttl) ==
    LET available_width == SaturatingSub(size.x, 2)
    IN 1 + (CASE align = "Start" -> 0
              [] align = "Middle" ->
                    SaturatingSub(available_width \div 2, TitleWidth(ttl) \div 2)
              [] OTHER -> SaturatingSub(available_width, TitleWidth(ttl)))

OptionMap(align, size, ttl) ==
    IF align = "None" THEN None ELSE Some(TitleStart(align, size, ttl))

\* checked_add on u16.
CheckedAdd(a, b) == IF a + b >= U16 THEN None ELSE Some(a + b)

\* "Draw the title": the closure called with the glyphs of the title from
\* glyph c on, until it returns an error; acc holds the writes so far and
\* the two offsets.
RECURSIVE DrawTitle(_, _, _)
DrawTitle(acc, ttl, size) ==
    IF ttl = <<>> THEN acc
    ELSE LET c == Head(ttl)
             width == GlyphWidth(c)
             right_border == BorderEdge(size.x)
             bottom_border == BorderEdge(size.y)
             Over(after) == after.none \/ right_border.none \/ after.value > right_border.value
             top_after == IF acc.offset_top.none THEN None
                          ELSE CheckedAdd(acc.offset_top.value, width)
             top_err == ~acc.offset_top.none /\ Over(top_after)
             a1 == IF acc.offset_top.none \/ top_err THEN acc
                   ELSE [acc EXCEPT
                           !.writes = Append(@, WriteChar(Vec2(acc.offset_top.value, 0),
                                                          c, TitleStyle)),
                           !.offset_top = top_after]
             bottom_on == ~acc.offset_bottom.none /\ ~bottom_border.none
             bottom_after == IF bottom_on THEN CheckedAdd(acc.offset_bottom.value, width)
                             ELSE None
             bottom_err == bottom_on /\ Over(bottom_after)
             a2 == IF ~bottom_on \/ bottom_err THEN a1
                   ELSE [a1 EXCEPT
                           !.writes = Append(@, WriteChar(Vec2(acc.offset_bottom.value,
                                                               bottom_border.value),
                                                          c, TitleStyle)),
                           !.offset_bottom = bottom_after]
         IN IF top_err THEN acc
            ELSE IF bottom_err THEN a1
            ELSE DrawTitle(a2, Tail(ttl), size)

\* The title part of draw: the writes and the offsets after them.
TitleWrites(b, ttl, size) ==
    LET start == [writes |-> <<>>,
                  offset_top |-> OptionMap(b.top_title_align, size, ttl),
                  offset_bottom |-> OptionMap(b.bottom_title_align, size, ttl)]
    IN IF start.offset_top.none /\ start.offset_bottom.none THEN start
       ELSE DrawTitle(start, ttl, size)

\* "Write top and bottom borders, not overwriting the title"
RECURSIVE EdgeWrites(_, _, _, _, _)
EdgeWrites(b, ttl, size, offsets, x) ==
    IF x >= SaturatingSub(size.x, 1) THEN <<>>
    ELSE LET title_start_top == OptionMap(b.top_title_align, size, ttl)
             title_start_bottom == OptionMap(b.bottom_title_align, size, ttl)
             bottom_border == BorderEdge(size.y)
             top == IF title_start_top.none
                       \/ x < title_start_top.value \/ x >= offsets.offset_top.value
                    THEN <<WriteChar(Vec2(x, 0), BorderSides.top, BorderStyle)>>
                    ELSE <<>>
             bottom == IF bottom_border.none THEN <<>>
                       ELSE IF title_start_bottom.none
                               \/ x < title_start_bottom.value
                               \/ x >= offsets.offset_bottom.value
                            THEN <<WriteChar(Vec2(x, bottom_border.value),
                                             BorderSides.bottom, BorderStyle)>>
                       ELSE <<>>
         IN top \o bottom \o EdgeWrites(b, ttl, size, offsets, x + 1)

\* Border::draw(element, output): every write_char call on the output, in
\* the order of the calls.
BorderDrawWrites(b, e, size) ==
    LET t == TitleWrites(b, e.title, size)
    IN AreaWrite(BorderDrawArea(b, size), Vec2(0, 0), e.text, e.style)
       \o PaddingWrites(b, size)
       \o CornerWrites(size)
       \o SideWrites(size)
       \o t.writes
       \o EdgeWrites(b, e.title, size, t, 1)

\* The elements a Border wraps in the model: spans with a title.
BorderElements ==
    {Element(text, DefaultStyle, "none", ttl, {}, <<>>) :
        text \in {<<>>, <<"a">>, <<"a", "W", "a">>},
        ttl \in {<<>>, <<"t">>, <<"t", "W">>, <<"W", "t", "u">>}}

\* A Border, a wrapped element and an output that holds prior cells.
InitBorderDraw ==
    /\ \E padding \in BOOLEAN, size \in BorderSizes,
          top \in Alignments \cup {"None"}, bottom \in Alignments \cup {"None"} :
          border = [padding |-> padding, size |-> size,
                    top_title_align |-> top, bottom_title_align |-> bottom]
    /\ element \in BorderElements
    /\ border_input = None /\ area = None /\ forwarded = None /\ filtered = None /\ arith = None
    /\ title = <<>> /\ old_buffer = BufferFrom(GridNew(Vec2(1, 1)))
    /\ buffer = BufferFrom(GridNew(Vec2(1, 1)))
    /\ cursor_pos = Vec2(0, 0) /\ style = DefaultStyle /\ mouse = None
    /\ backend = NoScreen /\ pc = "idle"
    /\ ret = None /\ ops = <<>> /\ err = 0
    /\ delivered = <<>> /\ drawn = None /\ rawHist = <<>> /\ failures = 0
    /\ LifeIdle

\* element.filter(border).draw(&mut grid)
BorderDrawGrid ==
    /\ drawn = None
    /\ drawn' = BufferFrom(ApplyWrites(PriorGrid(border.size),
                                       BorderDrawWrites(border, element, border.size)))
    /\ UNCHANGED <<title, old_buffer, buffer, cursor_pos, style, mouse, backend, pc,
                   element, ret, ops, err, delivered, rawHist, failures, life, filters>>

NextBorderDraw == BorderDrawGrid

SpecBorderDraw == InitBorderDraw /\ [][NextBorderDraw]_vars

\* The cell of the drawn grid at column x of row y (0-based).
At(x, y) == drawn.grid.lines[y + 1][x + 1]

BorderCell(ch) == Char(ch, FALSE, BorderStyle)

\* A cell of a title: a glyph in the title's style, or its second half.
TitleCell(cell) == cell.kind = "Continuation" \/ cell.style = TitleStyle

\* What the wrapped element draws on an output of its own of the area's size.
ElementAlone(e, size) == GridWrite(PriorGrid(size), Vec2(0, 0), e.text, e.style)

\* The corners, sides, top and bottom of the drawn border, and the wrapped
\* element's cells in its area.
BorderFrame ==
    LET w == border.size.x
        h == border.size.y
        rect == BorderDrawArea(border, border.size)
    IN /\ At(0, 0) = BorderCell(BorderCorners.top_left)
       /\ At(w - 1, 0) = BorderCell(BorderCorners.top_right)
       /\ At(0, h - 1) = BorderCell(BorderCorners.bottom_left)
       /\ At(w - 1, h - 1) = BorderCell(BorderCorners.bottom_right)
       /\ \A y \in 1..(h - 2) :
             /\ At(0, y) = BorderCell(BorderSides.left)
             /\ At(w - 1, y) = BorderCell(BorderSides.right)
       /\ \A x \in 1..(w - 2) :
             /\ At(x, 0) = BorderCell(BorderSides.top) \/ TitleCell(At(x, 0))
             /\ At(x, h - 1) = BorderCell(BorderSides.bottom) \/ TitleCell(At(x, h - 1))
             /\ (border.top_title_align = "None" \/ element.title = <<>>) =>
                   At(x, 0) = BorderCell(BorderSides.top)
             /\ (border.bottom_title_align = "None" \/ element.title = <<>>) =>
                   At(x, h - 1) = BorderCell(BorderSides.bottom)
       /\ rect.top_left = Vec2(IF border.padding THEN 2 ELSE 1, 1)
       /\ rect.size = Vec2(IF border.padding THEN (IF w < 4 THEN 0 ELSE w - 4)
                                             ELSE w - 2, h - 2)
       /\ \A x \in 0..(rect.size.x - 1), y \in 0..(rect.size.y - 1) :
             At(x + rect.top_left.x, y + rect.top_left.y)
                = ElementAlone(element, rect.size).lines[y + 1][x + 1]

\* The padding columns of the inner rows hold blanks in the border's style.
PaddingBlank ==
    \A y \in 1..(border.size.y - 2) :
        /\ At(1, y) = BorderCell(" ")
        /\ At(border.size.x - 2, y) = BorderCell(" ")

\* C21 as stated: on every output of at least 2x2, Border::draw puts the
\* corners, sides, top and bottom glyphs in place, the wrapped element's
\* cells in its area only, and, with padding, blanks in columns 1 and w-2 of
\* the inner rows.
C21_BorderLayout ==
    drawn # None /\ border.size.x >= 2 /\ border.size.y >= 2 =>
        /\ BorderFrame
        /\ border.padding => PaddingBlank

\* C21, amended: the same, the padding blanks on outputs at least 3 wide; on
\* an output 2 wide the padding columns are the border columns and hold the
\* side glyphs.
C21_BorderLayoutWide ==
    drawn # None /\ border.size.x >= 2 /\ border.size.y >= 2 =>
        /\ BorderFrame
        /\ border.padding /\ border.size.x >= 3 => PaddingBlank

\* A padded border drew an element of three glyphs, the second double-wide,
\* on an output with inner rows and an area narrower than the element.
C21_Witness ==
    /\ drawn # None /\ border.padding /\ border.size = Vec2(MaxBorder, 3)
    /\ element.text = <<"a", "W", "a">>
    /\ At(2, 1) = Char("a", FALSE, DefaultStyle)
    /\ At(1, 1) = BorderCell(" ")

\* The width of the first j glyphs of a title.
PrefixWidth(ttl, j) == TitleWidth(SubSeq(ttl, 1, j))

\* The column an alignment starts a title at on an output w wide.
AlignedStart(align, w, ttl) ==
    LET avail == IF w < 2 THEN 0 ELSE w - 2
        tw == TitleWidth(ttl)
    IN CASE align = "Start" -> 1
         [] align = "Middle" ->
               IF tw \div 2 > avail \div 2 THEN 1 ELSE 1 + (avail \div 2) - (tw \div 2)
         [] OTHER -> IF tw > avail THEN 1 ELSE 1 + avail - tw

\* The glyphs of the title that are kept: those before the first one that
\* would extend into or past the right border's column w - 1.
Kept(align, w, ttl) ==
    {k \in 1..Len(ttl) :
        \A j \in 1..k : AlignedStart(align, w, ttl) + PrefixWidth(ttl, j) <= w - 1}

\* The cell a top or bottom row holds in column x, given the row's title
\* alignment and border glyph.
EdgeCell(align, w, ttl, glyph, x) ==
    LET col(k) == AlignedStart(align, w, ttl) + PrefixWidth(ttl, k - 1)
        kept == IF align = "None" THEN {} ELSE Kept(align, w, ttl)
    IN IF \E k \in kept : col(k) = x
       THEN LET k == CHOOSE k \in kept : col(k) = x
            IN Char(ttl[k], GlyphWidth(ttl[k]) = 2, TitleStyle)
       ELSE IF \E k \in kept : GlyphWidth(ttl[k]) = 2 /\ col(k) + 1 = x
            THEN Continuation
       ELSE BorderCell(glyph)

\* C22: the top and bottom rows hold the corners, the kept glyphs of the
\* title from the column of the row's alignment on (column 1 when the title
\* is wider than the available width), the glyphs from the first one that
\* would reach the right border's column on dropped, and the border glyph
\* in every other column; an output without a right border holds no title.
C22_TitleClipped ==
    drawn # None /\ border.size.y >= 1 =>
        LET w == border.size.x
            h == border.size.y
            ttl == element.title
        IN /\ w >= 1 => At(0, 0) = BorderCell(BorderCorners.top_left)
           /\ w >= 2 => At(w - 1, 0) = BorderCell(BorderCorners.top_right)
           /\ \A x \in 1..(w - 2) :
                 At(x, 0) = EdgeCell(border.top_title_align, w, ttl, BorderSides.top, x)
           /\ h >= 2 =>
                 /\ w >= 1 => At(0, h - 1) = BorderCell(BorderCorners.bottom_left)
                 /\ w >= 2 => At(w - 1, h - 1) = BorderCell(BorderCorners.bottom_right)
                 /\ \A x \in 1..(w - 2) :
                       At(x, h - 1) = EdgeCell(border.bottom_title_align, w, ttl,
                                               BorderSides.bottom, x)
           /\ \A a \in Alignments :
                 TitleWidth(ttl) > SaturatingSub(w, 2) => TitleStart(a, border.size, ttl) = 1
           /\ \A x \in 0..(w - 1), y \in 0..(h - 1) :
                 (At(x, y).kind = "Char" /\ At(x, y).style = TitleStyle) =>
                    x >= 1 /\ x + GlyphWidth(At(x, y).contents) <= w - 1

\* A title wider than the available width was drawn in the middle of the top
\* and at the end of the bottom: both start at column 1 and lose their last
\* glyph.
C22_Witness ==
    /\ drawn # None /\ border.size = Vec2(5, 2)
    /\ element.title = <<"W", "t", "u">>
    /\ border.top_title_align = "Middle" /\ border.bottom_title_align = "End"
    /\ At(1, 0).contents = "W" /\ At(3, 0).contents = "t"
    /\ At(1, 1).contents = "W" /\ At(3, 1).contents = "t"

\* ------------------------------------------------- Filter and Filtered

\* A filter: for each of the five filter_* methods, whether the filter
\* overrides it. The overriding methods of the model replace the glyph by
\* "#", the style by GreenStyle, the cursor by none, the key by "esc", and
\* move the mouse to the origin.
FilterOf(ch, st, cur, key, ms) ==
    [filter_char |-> ch, filter_style |-> st, filter_cursor |-> cur,
     filter_key_press |-> key, filter_mouse |-> ms]

\* The filter that overrides no method.
DefaultFilter == FilterOf(FALSE, FALSE, FALSE, FALSE, FALSE)

Filters ==
    {DefaultFilter, FilterOf(TRUE, FALSE, FALSE, FALSE, FALSE),
     FilterOf(FALSE, TRUE, FALSE, FALSE, FALSE), FilterOf(FALSE, FALSE, TRUE, FALSE, FALSE),
     FilterOf(FALSE, FALSE, FALSE, TRUE, FALSE), FilterOf(FALSE, FALSE, FALSE, FALSE, TRUE)}

\* Filtered { element, filter }
Filtered(e, f) == [element |-> e, filter |-> f]

\* Mutant of FilterChar: the default replaces the glyph too.
FilterCharNever(f, c) == "#"

FilterChar(f, c) == IF f.filter_char THEN "#" ELSE c
FilterStyle(f, st) == IF f.filter_style THEN GreenStyle ELSE st
FilterCursor(f, cursor) == IF f.filter_cursor THEN None ELSE cursor
FilterKeyPress(f, key) == IF f.filter_key_press THEN "esc" ELSE key
FilterMouse(f, m) == IF f.filter_mouse THEN [m EXCEPT !.at = Vec2(0, 0)] ELSE m

\* A call of output.set_cursor(cursor).
SetCursor(cursor) == [cursor |-> cursor]

\* Filter::write_char and Filter::set_cursor: the call made on the base
\* output for a call made on the filter's output.
FilterCall(f, call) ==
    IF "ch" \in DOMAIN call
    THEN WriteChar(call.pos, FilterChar(f, call.ch), FilterStyle(f, call.style))
    ELSE SetCursor(FilterCursor(f, call.cursor))

\* output.write(pos, text, style): one write_char per glyph, each advancing
\* x by the glyph's display width.
RECURSIVE OutputWrite(_, _, _)
OutputWrite(pos, text, st) ==
    IF text = <<>> THEN <<>>
    ELSE <<WriteChar(pos, Head(text), st)>>
         \o OutputWrite(Vec2(pos.x + GlyphWidth(Head(text)), pos.y), Tail(text), st)

\* element.draw(output) on an output of the size: the calls on the output.
ElementCalls(e, size) ==
    OutputWrite(Vec2(0, 0), e.text, e.style)
    \o (IF e.cursor = "none" THEN <<>> ELSE <<SetCursor(ElementCursor(e, size))>>)

\* element.width(height) and element.height(width): a span takes its text's
\* width and one row whatever the other dimension is.
ElementWidth(e, height) == <<TitleWidth(e.text), TitleWidth(e.text)>>
ElementHeight(e, width) == <<1, 1>>

\* Filter::draw by default: the element draws on DrawFilterOutput, which has
\* the size of the output and pipes the calls through the filter.
FilterDraw(f, e, size) ==
    [i \in 1..Len(ElementCalls(e, size)) |-> FilterCall(f, ElementCalls(e, size)[i])]

FilterTitle(f, e) == e.title
FilterWidth(f, e, height) == ElementWidth(e, height)
FilterHeight(f, e, width) == ElementHeight(e, width)

\* Filter::filter_input
FilterInput(f, inp) ==
    IF inp.kind = "Key" THEN [inp EXCEPT !.key = FilterKeyPress(f, inp.key)]
    ELSE FilterMouse(f, inp)

\* Filter::handle by default: the input handed to the element and the events
\* the element pushed.
FilterHandle(f, e, inp) ==
    [input |-> FilterInput(f, inp), events |-> Handle(e, FilterInput(f, inp))]

\* The inputs handed to a Filtered on an output of the size.
FilterInputs(size) ==
    {[kind |-> "Key", key |-> "q"]}
    \cup {[kind |-> k, mouse |-> [kind |-> k, button |-> "Left"], at |-> at, size |-> size] :
            k \in {"Press", "Release", "Drag"},
            at \in {Vec2(0, 0), Vec2(size.x - 1, size.y - 1)}}

\* A call of a method of Filtered and what it issued or returned.
Method(name, arg, result) == [method |-> name, arg |-> arg, result |-> result]

\* An element with a filter applied; nothing called yet.
InitFilter ==
    /\ element \in {Filtered(e, f) : e \in Elements, f \in Filters}
    /\ filtered = None /\ arith = None
    /\ border = None /\ border_input = None /\ area = None /\ forwarded = None
    /\ title = <<>> /\ old_buffer = BufferFrom(GridNew(Vec2(1, 1)))
    /\ buffer = BufferFrom(GridNew(Vec2(1, 1)))
    /\ cursor_pos = Vec2(0, 0) /\ style = DefaultStyle /\ mouse = None
    /\ backend = NoScreen /\ pc = "idle"
    /\ ret = None /\ ops = <<>> /\ err = 0
    /\ delivered = <<>> /\ drawn = None /\ rawHist = <<>> /\ failures = 0
    /\ LifeIdle

\* <Filtered as Element>::draw
FilteredDraw(size) ==
    /\ filtered' = Method("draw", size, FilterDraw(element.filter, element.element, size))
    /\ UNCHANGED <<draws, life, border, border_input, area, forwarded, arith>>

\* <Filtered as Element>::title
FilteredTitle ==
    /\ filtered' = Method("title", None, FilterTitle(element.filter, element.element))
    /\ UNCHANGED <<draws, life, border, border_input, area, forwarded, arith>>

\* <Filtered as Element>::width
FilteredWidth(height) ==
    /\ filtered' = Method("width", height,
                          FilterWidth(element.filter, element.element, height))
    /\ UNCHANGED <<draws, life, border, border_input, area, forwarded, arith>>

\* <Filtered as Element>::height
FilteredHeight(width) ==
    /\ filtered' = Method("height", width,
                          FilterHeight(element.filter, element.element, width))
    /\ UNCHANGED <<draws, life, border, border_input, area, forwarded, arith>>

\* <Filtered as Element>::handle
FilteredHandle(inp) ==
    /\ filtered' = Method("handle", inp, FilterHandle(element.filter, element.element, inp))
    /\ UNCHANGED <<draws, life, border, border_input, area, forwarded, arith>>

NextFilter ==
    \/ \E size \in GridSizes : FilteredDraw(size)
    \/ FilteredTitle
    \/ \E height \in {None} \cup {Some(n) : n \in 0..MaxH} : FilteredWidth(height)
    \/ \E width \in {None} \cup {Some(n) : n \in 0..MaxW} : FilteredHeight(width)
    \/ \E size \in GridSizes : \E inp \in FilterInputs(size) : FilteredHandle(inp)

SpecFilter == InitFilter /\ [][NextFilter]_vars

\* What the bare element does for a call of the method with the argument.
Bare(e, method, arg) ==
    CASE method = "draw" -> ElementCalls(e, arg)
      [] method = "title" -> e.title
      [] method = "width" -> ElementWidth(e, arg)
      [] method = "height" -> ElementHeight(e, arg)
      [] OTHER -> [input |-> arg, events |-> Handle(e, arg)]

\* C23: a Filtered whose filter overrides no method does what the bare
\* element does: draw issues the element's write_char and set_cursor calls,
\* title gives the element's title, width and height the element's ranges,
\* and handle hands the element the same input and yields its events.
C23_DefaultsForward ==
    filtered # None /\ element.filter = DefaultFilter =>
        filtered.result = Bare(element.element, filtered.method, filtered.arg)

\* The default filter drew an element with a cursor, and handed on a mouse
\* press that made the element push an event.
C23_Witness ==
    /\ filtered # None /\ element.filter = DefaultFilter
    /\ filtered.method = "handle" /\ filtered.arg.kind = "Press"
    /\ filtered.result.events # <<>>

C23_WitnessDraw ==
    /\ filtered # None /\ element.filter = DefaultFilter
    /\ filtered.method = "draw" /\ Len(filtered.result) = 2
    /\ element.element.cursor = "end"

\* ------------------------------------------------------- Vec2 arithmetic

\* What an operation on u16 gives: a value, or a panic.
Value(v) == [panic |-> FALSE, value |-> v]
Panic == [panic |-> TRUE]

\* <u16 as Add>::add and <u16 as Sub>::sub: where the result leaves the
\* type, a build that checks overflow panics and one that does not wraps.
U16Add(a, b, checked) ==
    IF a + b >= U16 THEN (IF checked THEN Panic ELSE Value((a + b) % U16))
    ELSE Value(a + b)
U16Sub(a, b, checked) ==
    IF SubOverflows(a, b) THEN (IF checked THEN Panic ELSE Value(WrappingSub(a, b)))
    ELSE Value(a - b)

\* vec2_arith!(Add, ..) and vec2_arith!(Sub, ..): the operation on x, then
\* on y.
Vec2Arith(name, lhs, rhs, checked) ==
    LET x == IF name = "add" THEN U16Add(lhs.x, rhs.x, checked)
             ELSE U16Sub(lhs.x, rhs.x, checked)
        y == IF name = "add" THEN U16Add(lhs.y, rhs.y, checked)
             ELSE U16Sub(lhs.y, rhs.y, checked)
    IN IF x.panic \/ y.panic THEN Panic ELSE Value(Vec2(x.value, y.value))

Vec2s == [x : BorderCoords, y : BorderCoords]

\* No vector operation has been evaluated; the terminal is idle.
InitVec2 ==
    /\ arith = None
    /\ border = None /\ border_input = None /\ area = None /\ forwarded = None
    /\ filtered = None
    /\ title = <<>> /\ old_buffer = BufferFrom(GridNew(Vec2(1, 1)))
    /\ buffer = BufferFrom(GridNew(Vec2(1, 1)))
    /\ cursor_pos = Vec2(0, 0) /\ style = DefaultStyle /\ mouse = None
    /\ backend = NoScreen /\ pc = "idle"
    /\ element = None /\ ret = None /\ ops = <<>> /\ err = 0
    /\ delivered = <<>> /\ drawn = None /\ rawHist = <<>> /\ failures = 0
    /\ LifeIdle

\* lhs + rhs
Vec2Add(lhs, rhs, checked) ==
    /\ arith = None
    /\ arith' = [op |-> "add", lhs |-> lhs, rhs |-> rhs,
                 outcome |-> Vec2Arith("add", lhs, rhs, checked)]
    /\ UNCHANGED <<draws, life, border, border_input, area, forwarded, filtered>>

\* lhs - rhs
Vec2Sub(lhs, rhs, checked) ==
    /\ arith = None
    /\ arith' = [op |-> "sub", lhs |-> lhs, rhs |-> rhs,
                 outcome |-> Vec2Arith("sub", lhs, rhs, checked)]
    /\ UNCHANGED <<draws, life, border, border_input, area, forwarded, filtered>>

NextVec2 ==
    \/ \E lhs \in Vec2s, rhs \in Vec2s, checked \in BOOLEAN : Vec2Add(lhs, rhs, checked)
    \/ \E lhs \in Vec2s, rhs \in Vec2s, checked \in BOOLEAN : Vec2Sub(lhs, rhs, checked)

SpecVec2 == InitVec2 /\ [][NextVec2]_vars

\* C24: component-wise addition and subtraction of Vec2<u16> saturate at the
\* bounds of u16: they never panic and never wrap, the sum being at most
\* 65535 and the difference at least 0 in each component.
C24_Vec2Saturates ==
    arith # None =>
        /\ ~arith.outcome.panic
        /\ arith.op = "add" =>
              arith.outcome.value = Vec2(SaturatingAdd(arith.lhs.x, arith.rhs.x),
                                         SaturatingAdd(arith.lhs.y, arith.rhs.y))
        /\ arith.op = "sub" =>
              arith.outcome.value = Vec2(SaturatingSub(arith.lhs.x, arith.rhs.x),
                                         SaturatingSub(arith.lhs.y, arith.rhs.y))

\* C25: after each diff, its cursor reconciliation included, the held
\* cursor position is where the backend's cursor is, and the held style is
\* the style the backend writes with.
C25_HeldTracksBackend ==
    pc = "await" => cursor_pos = backend.cursor_pos /\ style = backend.style

\* The buffer is clear: every cell blank in the default style, no cursor.
IsClear(buf) == buf = BufferReset(buf)

\* C26: the buffer element.draw is called on is clear, at every draw call
\* and at every redraw after a resize, whatever the earlier draw calls did:
\* returned events, returned an error, were cancelled or handled resizes.
C26_BufferClearAtFrame ==
    /\ IsClear(buffer)
    /\ \A size \in GridSizes : IsClear(ResizeBuffers(Run(0), size).buffer)

\* The operations of a step without the title's.
NotTitle(o) == o.op # "SetTitle"
DiffOps(stream) == SelectSeq(stream, NotTitle)

\* C27: a frame that draws the buffer the previous frame drew, the cursor
\* included, makes the differ run from A to A: it issues the background
\* reset and nothing else, no write and no cursor move.
C27_DiffSelf ==
    [][(pc = "idle" /\ pc' = "await" /\ drawn' = old_buffer) =>
          DiffOps(ops') = <<Op("SetBackground", "Default"), Op("Flush", "")>>]_vars

\* The field of the style each style operation sets.
StyleField(op) ==
    CASE op = "SetForeground" -> "foreground"
      [] op = "SetBackground" -> "background"
      [] op = "SetIntensity" -> "intensity"
      [] op = "SetItalic" -> "italic"
      [] op = "SetUnderlined" -> "underlined"
      [] op = "SetBlinking" -> "blinking"
      [] OTHER -> "crossed_out"

\* The style the backend writes with before operation i of the stream, when
\* it wrote with st before the stream.
RECURSIVE StyleBefore(_, _, _)
StyleBefore(st, stream, i) ==
    IF i <= 1 THEN st
    ELSE LET s == StyleBefore(st, stream, i - 1)
             o == stream[i - 1]
         IN IF o.op \in StyleOps THEN [s EXCEPT ![StyleField(o.op)] = o.arg] ELSE s

\* Whether a write lies strictly between operations i and j of the stream.
WriteBetween(stream, i, j) == \E k \in WriteIndexes(stream) : i < k /\ k < j

\* C28: in the stream of one diff, a style operation that precedes a write
\* sets a field to a value other than the one held, so that no style
\* operation lies between two consecutive writes in one style; and no
\* operation is followed by one of its own kind without a write in between.
C28_DifferMinimal ==
    [][pc = "diff" =>
          /\ \A i \in 1..Len(ops') :
                (ops'[i].op \in StyleOps /\ \E k \in WriteIndexes(ops') : i < k) =>
                    StyleBefore(style, ops', i)[StyleField(ops'[i].op)] # ops'[i].arg
          /\ \A k1 \in WriteIndexes(ops'), k2 \in WriteIndexes(ops') :
                (k1 < k2 /\ ~WriteBetween(ops', k1, k2)
                    /\ StyleBefore(style, ops', k1) = StyleBefore(style, ops', k2)) =>
                    \A i \in (k1 + 1)..(k2 - 1) : ops'[i].op \notin StyleOps
          /\ \A i \in 1..Len(ops'), j \in 1..Len(ops') :
                (i < j /\ ops'[i].op = ops'[j].op /\ ops'[i].op # "Write") =>
                    WriteBetween(ops', i, j)]_vars

\* A diff wrote two cells in one style one after the other, setting the
\* style before the first and nothing before the second.
C28_Witness ==
    /\ pc = "done" /\ Len(ops) >= 4
    /\ \E i \in 1..(Len(ops) - 1) :
          /\ ops[i].op = "Write" /\ ops[i + 1].op = "Write"
          /\ i > 1 /\ ops[i - 1].op \in StyleOps

\* The operations of the cursor reconciliation.
CursorOps == {"ShowCursor", "HideCursor", "SetCursorShape", "SetCursorBlinking", "SetCursorPos"}

\* The index of the last write of the stream (0: none).
LastWrite(stream) ==
    IF WriteIndexes(stream) = {} THEN 0
    ELSE CHOOSE k \in WriteIndexes(stream) : \A j \in WriteIndexes(stream) : j <= k

\* The background resets of the stream after its last write.
Resets(stream) ==
    {i \in 1..Len(stream) :
        /\ i > LastWrite(stream)
        /\ stream[i].op = "SetBackground"
        /\ stream[i].arg = "Default"}

\* C29: the diff of every frame issues set_background(Default) exactly once
\* after its last write and before every operation of the cursor
\* reconciliation, whatever background is held, and holds the default
\* background afterwards; whenever draw awaits read_event, the backend's
\* background is the default.
C29_BackgroundReset ==
    [][/\ (\E i \in 1..Len(ops') : ops'[i].op = "Flush") =>
             /\ Cardinality(Resets(ops')) = 1
             /\ \A i \in Resets(ops'), j \in 1..Len(ops') :
                   (j > LastWrite(ops') /\ ops'[j].op \in CursorOps) => i < j
             /\ style'.background = "Default"
       /\ pc' = "await" => backend'.style.background = "Default"]_vars

\* A frame wrote on a blue background, reset it and then showed the cursor;
\* and a frame that wrote nothing reset the default background.
C29_Witness ==
    /\ pc = "await"
    /\ \E i \in 1..Len(ops), j \in 1..Len(ops), k \in 1..Len(ops) :
          /\ i < LastWrite(ops) /\ ops[i].op = "SetBackground" /\ ops[i].arg = "Blue"
          /\ j \in Resets(ops) /\ j < k /\ ops[k].op = "ShowCursor"

C29_WitnessIdle ==
    /\ pc = "await" /\ LastWrite(ops) = 0
    /\ ops = <<Op("SetBackground", "Default"), Op("Flush", "")>>

\* How many operations of the name the stream holds.
Count(stream, name) == Cardinality({i \in 1..Len(stream) : stream[i].op = name})

\* C30: the diff of a frame shows the cursor exactly if the new buffer has a
\* cursor and the old had none, hides it exactly if the old had one and the
\* new has none, each at most once, so that shows and hides alternate from
\* the hidden cursor Terminal::new leaves; it sets the shape (the blinking)
\* exactly if the new buffer has a cursor and the old had none or another
\* shape (blinking); and a frame that only removes the cursor issues the
\* background reset and hide_cursor, nothing else.
C30_CursorReconciled ==
    [][(\E i \in 1..Len(ops') : ops'[i].op = "Flush") =>
          LET old == old_buffer.cursor
              new == drawn'.cursor
          IN /\ Count(ops', "ShowCursor") = (IF ~new.none /\ old.none THEN 1 ELSE 0)
             /\ Count(ops', "HideCursor") = (IF new.none /\ ~old.none THEN 1 ELSE 0)
             /\ Count(ops', "ShowCursor") = 1 => ~backend.cursor_visible
             /\ Count(ops', "HideCursor") = 1 => backend.cursor_visible
             /\ Count(ops', "SetCursorShape")
                   = (IF ~new.none /\ (old.none \/ old.shape # new.shape) THEN 1 ELSE 0)
             /\ Count(ops', "SetCursorBlinking")
                   = (IF ~new.none /\ (old.none \/ old.blinking # new.blinking) THEN 1 ELSE 0)
             /\ (new.none /\ ~old.none /\ drawn'.grid = old_buffer.grid
                    /\ SizeOf(buffer') = SizeOf(buffer)) =>
                   DiffOps(ops') = <<Op("SetBackground", "Default"), Op("HideCursor", ""),
                                     Op("Flush", "")>>]_vars

\* A frame that only removed the cursor followed one that showed it.
C30_Witness ==
    /\ pc = "await" /\ drawn.cursor.none
    /\ ops = <<Op("SetBackground", "Default"), Op("HideCursor", ""), Op("Flush", "")>>
    /\ ~backend.cursor_visible

\* A frame changed the shape and the blinking of a cursor that was shown.
C30_WitnessShape ==
    /\ pc = "await" /\ ~drawn.cursor.none
    /\ Count(ops, "SetCursorShape") = 1 /\ Count(ops, "ShowCursor") = 0

\* ------------------------------------------- text diffed against an empty grid

\* Single-width glyphs.
Glyphs == {"H", "e", "l"}

\* The texts of 1..n glyphs.
Texts(n) == UNION {[1..k -> Glyphs] : k \in 1..n}

\* A terminal whose old buffer is empty and whose element has written a text
\* of default style from column 0 of the new buffer; the held style is the
\* default of Terminal::new, and the held cursor position that of
\* Terminal::new or the one an earlier frame left.
InitHello ==
    \E size \in GridSizes :
    \E text \in Texts(size.x) :
    \E pos \in Positions(size) :
        /\ element = Element(text, DefaultStyle, "none", <<>>, {}, <<>>)
        /\ old_buffer = BufferFrom(GridNew(size))
        /\ buffer = ElementDraw(element, BufferFrom(GridNew(size)))
        /\ style = DefaultStyle
        /\ cursor_pos = pos
        /\ backend = [BackendNew(GridNew(size)) EXCEPT !.cursor_pos = pos]
        /\ pc = "diff"
        /\ title = <<>> /\ mouse = None /\ ret = None
        /\ ops = <<>> /\ err = 0 /\ delivered = <<>> /\ drawn = None
        /\ rawHist = <<>> /\ failures = 0
        /\ LifeIdle
        /\ FiltersIdle

NextHello == DiffStep

SpecHello == InitHello /\ [][NextHello]_vars

CellAt(grid, p) == grid.lines[p.y + 1][p.x + 1]

\* The k-th cell the differ writes, in row-major order.
WrittenCell(old, new, k) ==
    CHOOSE p \in Written(old, new) : RowMajorRank(Written(old, new), p) = k

\* C32: the differ emits one write per changed cell of the new buffer that is
\* no Continuation, and none for a Continuation; no cursor move before a
\* write goes to a Continuation cell; the held cursor position after the diff
\* is the one after the last written cell, (min(x + 2 if double else x + 1,
\* width - 1), y), or the one held before if nothing was written; and a
\* written cell directly to the right of the glyph written before it, on
\* the same row, is written without a set_cursor_pos.
C32_ContinuationSkipped ==
    [][pc = "diff" /\ pc' = "done" =>
          LET old == old_buffer.grid
              new == buffer.grid
              n == Cardinality(Written(old, new))
          IN /\ Count(ops', "Write") = n
             /\ \A i \in 1..(Len(ops') - 1) :
                    (ops'[i].op = "SetCursorPos" /\ ops'[i + 1].op = "Write") =>
                        CellAt(new, ops'[i].arg).kind # "Continuation"
             /\ cursor_pos' =
                    IF n = 0 THEN cursor_pos
                    ELSE LET p == WrittenCell(old, new, n)
                         IN Vec2(Min(p.x + (IF CellAt(new, p).double THEN 2 ELSE 1),
                                     new.w - 1), p.y)
             /\ \A k \in 2..n :
                    LET p == WrittenCell(old, new, k - 1)
                        q == WrittenCell(old, new, k)
                    IN (q.y = p.y /\ q.x = p.x + (IF CellAt(new, p).double THEN 2 ELSE 1))
                          => ops'[NthWrite(ops', k) - 1].op # "SetCursorPos"]_vars

\* A diff that wrote a double-wide glyph over blanks, skipped its
\* Continuation, which differs from the old cell, and wrote the cell right
\* of it without a cursor move.
C32_Witness ==
    /\ pc = "done"
    /\ buffer.grid.w = 3
    /\ CellAt(buffer.grid, Vec2(0, 0)).kind = "Char"
    /\ CellAt(buffer.grid, Vec2(0, 0)).double
    /\ CellAt(old_buffer.grid, Vec2(0, 0)) = Blank
    /\ CellAt(old_buffer.grid, Vec2(1, 0)) = Blank
    /\ CellAt(buffer.grid, Vec2(2, 0)) # CellAt(old_buffer.grid, Vec2(2, 0))
    /\ Count(ops, "Write") = Cardinality(Written(old_buffer.grid, buffer.grid))
    /\ ops[NthWrite(ops, 2) - 1].op # "SetCursorPos"
    /\ cursor_pos = Vec2(2, 0)

\* ------------------------------------------------------ the order of a frame

\* The operations of a step that belong to an iteration of draw's outer
\* loop: all but the title's and the read of the event.
InFrame(o) == o.op \notin {"SetTitle", "ReadEvent"}
FrameOps(stream) == SelectSeq(stream, InFrame)

\* The operations of a frame that diffs new against old and completes.
WholeFrame(st, pos, old, new) ==
    Append(Diff(Acc(0, st, pos), old, new).ops, Op("Flush", ""))

\* The operations of s are the first of t.
StartsWith(t, s) ==
    /\ Len(s) <= Len(t)
    /\ \A i \in 1..Len(s) : s[i].op = t[i].op /\ s[i].arg = t[i].arg

\* C33: a step of draw that runs an iteration of the outer loop (the start
\* of a draw call, or a Resize to another size) issues, after the title's
\* operation or the read, the operations of the diff of the buffer
\* element.draw has completed against the old buffer, then one flush (up to
\* the operation that fails, if one does); it reaches the await of read_event
\* only with all of them issued, the flush last, the drawn buffer become the
\* old one and the new one reset; and a step that does not run an iteration
\* issues no drawing operation and no flush, and leaves the buffers alone.
C33_FrameOrder ==
    [][LET f == FrameOps(ops')
           resized == /\ pc = "await" /\ ops' # <<>>
                      /\ ops'[1].op = "ReadEvent"
                      /\ IsResize(Run(0), ops'[1].arg)
           r0 == IF resized THEN ResizeBuffers(Run(0), ops'[1].arg.size) ELSE Run(0)
           framed == pc = "idle" \/ resized
           new == ElementDraw(element', r0.buffer)
           whole == WholeFrame(style, r0.cursor_pos, r0.old_buffer, new)
       IN /\ Count(ops', "Flush") <= 1
          /\ \A i \in 1..Len(ops') : ops'[i].op = "Flush" => i = Len(ops')
          /\ framed => StartsWith(whole, f)
          /\ ~framed => f = <<>>
          /\ (framed /\ pc' = "await") =>
                /\ Len(f) = Len(whole)
                /\ drawn' = new
                /\ old_buffer' = new
                /\ IsClear(buffer')
          /\ (~framed /\ pc' = "await") => UNCHANGED <<old_buffer, buffer>>]_vars

\* A redraw after a Resize that wrote, flushed and went back to read_event.
C33_Witness ==
    /\ pc = "await"
    /\ Len(ops) >= 4
    /\ ops[1].op = "ReadEvent"
    /\ ops[1].arg.type = "Resize"
    /\ Count(ops, "Write") >= 1
    /\ ops[Len(ops)].op = "Flush"
    /\ old_buffer = drawn

\* ------------------------------------------------------- draw's liveness

\* The events the match on the terminal event can make an input of: a
\* Resize never makes one.
InputEvents == {Key("q")} \cup MouseEvents

\* Whether, as the terminal is, the event makes an input for which the
\* element pushes at least one event to the sink.
Pushes(ev) ==
    /\ ev \in InputEvents
    /\ \E a \in {Decode(Run(0), ev)} :
          ~a.input.none /\ Handle(element, a.input.value) # <<>>

\* read_event resolves with an event whose input makes the element push.
DeliverPushing ==
    /\ pc = "await"
    /\ \E ev \in InputEvents : Pushes(ev) /\ ReadEvent(ev, FALSE, FALSE)

\* read_event resolves with any other event.
DeliverOther ==
    /\ pc = "await"
    /\ \E ev \in TerminalEvents : ~Pushes(ev) /\ ReadEvent(ev, FALSE, FALSE)

\* Draw calls that are polled to completion on a backend that never fails.
NextLive ==
    \/ \E e \in Elements : DrawCall(e, FALSE)
    \/ DeliverPushing
    \/ DeliverOther

\* The backend keeps delivering events, and delivers one whose input makes
\* the element push if it can do so again and again.
SpecLive == Init /\ [][NextLive]_vars /\ SF_vars(DeliverPushing)

\* draw awaits an event, and the backend can deliver one that makes the
\* element push.
Pushable == pc = "await" /\ \E ev \in InputEvents : Pushes(ev)

\* draw has returned events.
Returned == pc = "idle" /\ "ok" \in DOMAIN ret /\ ret.ok

\* C34: on a backend that never fails and keeps delivering events, a draw
\* call that can be delivered an input for which element.handle pushes an
\* event returns eventually; the step in which it returns is the one that
\* hands the element the first such input, and it returns the events pushed
\* for it; a step that hands the element no input (a stray Release, a
\* Resize) or one for which it pushes nothing leaves draw awaiting.
C34_DrawReturns ==
    /\ Pushable ~> Returned
    /\ [][pc = "await" =>
            IF delivered' # <<>> /\ Handle(element, delivered'[1]) # <<>>
            THEN pc' = "idle" /\ ret' = Ok(Handle(element, delivered'[1]))
            ELSE pc' = "await" /\ ret' = None]_vars

\* draw has returned the event pushed for a Press, after a Release that was
\* handed to an element that pushes nothing for it.
C34_Witness ==
    /\ Returned
    /\ ret.value = <<"Quit">>
    /\ delivered # <<>> /\ delivered[1].kind = "Press"
    /\ ~mouse.none

\* ------------------------------------------------- failed construction

\* C35: a failed construction does not leak the flag: whenever the flag is
\* set, a terminal on a backend that is not a dummy is alive or being
\* constructed, so that a Terminal::new that returned an error leaves the
\* flag clear and a later Terminal::new does not panic.
C35_FlagNotLeaked ==
    TERMINAL_EXISTS =>
        \E i \in Slots : /\ terminals[i].state \in {"binding", "alive"}
                         /\ ~terminals[i].dummy

\* ------------------------------------------------- the held mouse button

\* C36: a step of the terminal that reads a Press(b) leaves b held, whatever
\* was held before; one that reads a Release leaves nothing held; every
\* other step (a Key, a Move, a scroll, a Resize and the redraw after it, the
\* start of a draw call, the drop of its future) leaves the held button as
\* it is; and a Move read while b is held, in the draw call of the Press or
\* in a later one, is handed to the element as Drag(b).
C36_HeldButton ==
    [][/\ \A b \in MouseButtons : ReadsEvent(Mouse(Press(b))) => mouse' = Some(b)
       /\ ReadsEvent(Mouse(Release)) => mouse' = None
       /\ ~(\E k \in {Press(b) : b \in MouseButtons} \cup {Release} :
                ReadsEvent(Mouse(k)))
             => mouse' = mouse
       /\ (ReadsEvent(Mouse(Move)) /\ ~mouse.none) =>
             /\ Len(delivered') = 1
             /\ delivered'[1].mouse = [kind |-> "Drag", button |-> mouse.value]]_vars

\* A Drag handed to an element whose draw call returns on every Press: the
\* button was pressed in an earlier draw call.
C36_Witness ==
    /\ pc = "await"
    /\ element.listens = {"Key", "Press"}
    /\ delivered # <<>> /\ delivered[1].kind = "Drag"
    /\ mouse = Some("Right")

\* ------------------------------------------------ concurrent construction

\* The threads that have passed Terminal::new's check for a backend that is
\* not a dummy and have not given their terminal up.
PassedReal(ts) ==
    {i \in Slots : ts[i].state \in {"binding", "alive"} /\ ~ts[i].dummy}

\* C37: of the threads that call Terminal::new for backends that are not
\* dummies at the same time, at most one is past the check at any time, in
\* every interleaving of their swaps and of what follows them; a thread whose
\* swap comes while another is past the check panics and binds no backend.
C37_OnePasses ==
    /\ [](Cardinality(PassedReal(terminals)) <= 1)
    /\ [][\A i \in Slots :
            (/\ outcome'.op \in {"new", "swap"} /\ outcome'.slot = i
             /\ terminals[i].state = "none"
             /\ ~outcome'.dummy
             /\ PassedReal(terminals) # {})
            => /\ outcome'.result = "panic"
               /\ terminals'[i].state = "none"]_vars

\* A thread has panicked in Terminal::new while another was between its swap
\* and its bind, no terminal alive.
C37_Witness ==
    /\ outcome.op = "new" /\ outcome.result = "panic" /\ ~outcome.dummy
    /\ \E i \in Slots : terminals[i].state = "binding" /\ ~terminals[i].dummy
    /\ \A i \in Slots : terminals[i].state # "alive"

\* ------------------------------------------------------ the cached title

\* Draw calls on a terminal bound to the virtual backend, whose operations
\* may fail: the backend's title is the last one it accepted.
NextTitle ==
    \/ \E e \in Elements : DrawCall(e, TRUE)
    \/ ReadEvent(Key("q"), TRUE, FALSE)
    \/ Cancel

SpecTitle == InitFrames /\ [][NextTitle]_vars

\* C38: the cached title is the title the backend accepted last (none
\* before the first set_title), so that a draw call whose set_title failed
\* does not leave the new title cached and the next draw call with the same
\* element title issues set_title again.
C38_CacheIsAccepted == title = backend.title

\* ---------------------------------------------------- the buffers' sizes

\* C39: the old and the new buffer always have one size, each grid holding
\* that many rows of that many cells, so that the differ's zipped loops meet
\* every cell of the new buffer with a cell of the old one; the size is the
\* one Terminal::new got from the backend until a step reads a Resize to
\* another size, becomes that size in that step, and changes in no other.
C39_BuffersOneSize ==
    /\ [](/\ SizeOf(old_buffer) = SizeOf(buffer)
          /\ GridOk(old_buffer.grid) /\ GridOk(buffer.grid))
    /\ [][IF \E size \in GridSizes : size # SizeOf(buffer) /\ ReadsEvent(Resize(size))
          THEN ReadsEvent(Resize(SizeOf(buffer')))
          ELSE SizeOf(buffer') = SizeOf(buffer)]_vars

\* Both buffers have the size of the Resize just read, wider and lower than
\* the one before, and the frame has been drawn again at that size.
C39_Witness ==
    /\ pc = "await"
    /\ Len(ops) >= 3
    /\ ops[1].op = "ReadEvent" /\ ops[1].arg.type = "Resize"
    /\ ops[1].arg.size = Vec2(MaxW, 1)
    /\ SizeOf(buffer) = Vec2(MaxW, 1) /\ SizeOf(old_buffer) = Vec2(MaxW, 1)
    /\ old_buffer.grid.lines[1][1] # Blank

\* ------------------------------------------- the held cursor position

\* C40: whenever the grid has a cell, the held cursor position is the
\* position of one: cursor_pos.x < width and cursor_pos.y < height, after
\* every diff and every Resize, to an empty size and back included.
C40_CursorInGrid ==
    (buffer.grid.w > 0 /\ buffer.grid.h > 0) =>
        cursor_pos.x < buffer.grid.w /\ cursor_pos.y < buffer.grid.h

\* The frame was drawn again on a screen resized to one column, narrower
\* than the text the element writes, and the held cursor is in that column.
C40_Witness ==
    /\ pc = "await"
    /\ Len(ops) >= 3
    /\ ops[1].op = "ReadEvent" /\ ops[1].arg.type = "Resize"
    /\ ops[1].arg.size.x = 1
    /\ buffer.grid.w = 1 /\ buffer.grid.h = MaxH
    /\ Len(element.text) = 2
    /\ Count(ops, "Write") >= 1
    /\ cursor_pos.x = 0

====
